---------------------------- MODULE Spec2Model ----------------------------
(***************************************************************************)
(* A model of scripts/torc_ops.py: the unit conversion helpers, the        *)
(* approval helper and the liquidity handlers of the TORC ops CLI.         *)
(*                                                                         *)
(* Python strings are sequences of one-character strings.  Python ints are *)
(* unbounded, so an integer is a record [neg, mag] whose magnitude is a    *)
(* sequence of decimal digits, most significant first, without leading     *)
(* zeros (zero is <<0>>).  A raised Python exception is a record [exc].    *)
(***************************************************************************)
EXTENDS Integers, Sequences, FiniteSets, TLC

\* F applied to the value of v: v is evaluated once, however often F uses it
Bind(v, F(_)) == CHOOSE r \in {F(x) : x \in {v}} : TRUE

\* ------------------------------------------------------------------------
\* Characters and strings
\* ------------------------------------------------------------------------
DigitChars == <<"0", "1", "2", "3", "4", "5", "6", "7", "8", "9">>

DigitSet == {"0", "1", "2", "3", "4", "5", "6", "7", "8", "9"}

HexChars == <<"0", "1", "2", "3", "4", "5", "6", "7", "8", "9",
              "a", "b", "c", "d", "e", "f">>

HexSet == {"0", "1", "2", "3", "4", "5", "6", "7", "8", "9",
           "a", "b", "c", "d", "e", "f"}

WhiteSpace == {" ", "\t", "\n", "\r"}

DigitVal(c) == (CHOOSE i \in 1..10 : DigitChars[i] = c) - 1

Lower(c) ==
  CASE c = "A" -> "a" [] c = "B" -> "b" [] c = "C" -> "c" [] c = "D" -> "d"
    [] c = "E" -> "e" [] c = "F" -> "f" [] c = "I" -> "i" [] c = "N" -> "n"
    [] c = "S" -> "s" [] c = "T" -> "t" [] c = "X" -> "x" [] c = "Y" -> "y"
    [] OTHER -> c

\* str.lower()
LowerStr(s0) == Bind(s0, LAMBDA s : [i \in 1..Len(s) |-> Lower(s[i])])

MinOf(S0) == Bind(S0, LAMBDA S : CHOOSE x \in S : \A y \in S : x <= y)

MaxOf(S0) == Bind(S0, LAMBDA S : CHOOSE x \in S : \A y \in S : x >= y)

\* str.strip(): drop leading and trailing whitespace
Strip(s0) ==
  Bind(s0, LAMBDA s :
  Bind({i \in 1..Len(s) : s[i] \notin WhiteSpace}, LAMBDA keep :
    IF keep = {} THEN <<>> ELSE SubSeq(s, MinOf(keep), MaxOf(keep))))

\* str.endswith(suf)
EndsWith(s, suf) ==
  /\ Len(s) >= Len(suf)
  /\ SubSeq(s, Len(s) - Len(suf) + 1, Len(s)) = suf

\* str.startswith(pre)
StartsWith(s, pre) ==
  /\ Len(s) >= Len(pre)
  /\ SubSeq(s, 1, Len(pre)) = pre

\* s[:-n]
DropLast(s, n) == SubSeq(s, 1, Len(s) - n)

\* s[n:]
DropFirst(s, n) == SubSeq(s, n + 1, Len(s))

NotUnderscore(c) == c # "_"

Zeros(n) == [i \in 1..n |-> 0]

Repeat(c, n) == [i \in 1..n |-> c]

\* ------------------------------------------------------------------------
\* Unbounded integers as digit sequences
\* ------------------------------------------------------------------------
NormNat(ds0) ==
  Bind(ds0, LAMBDA ds :
  Bind({i \in 1..Len(ds) : ds[i] # 0}, LAMBDA nz :
    IF nz = {} THEN <<0>> ELSE SubSeq(ds, MinOf(nz), Len(ds))))

MkInt(neg, ds) ==
  Bind(NormNat(ds), LAMBDA m : [neg |-> neg /\ m # <<0>>, mag |-> m])

Exc(name) == [exc |-> name]

IsExc(v) == "exc" \in DOMAIN v

\* a < b on magnitudes
MagLt(a0, b0) ==
  Bind(<<a0, b0>>, LAMBDA p :
    \/ Len(p[1]) < Len(p[2])
    \/ /\ Len(p[1]) = Len(p[2])
       /\ \E i \in 1..Len(p[1]) :
            /\ p[1][i] < p[2][i]
            /\ \A j \in 1..(i - 1) : p[1][j] = p[2][j])

\* a < b on integers
IntLt(a0, b0) ==
  Bind(<<a0, b0>>, LAMBDA p :
    CASE p[1].neg /\ ~p[2].neg -> TRUE
      [] ~p[1].neg /\ p[2].neg -> FALSE
      [] ~p[1].neg /\ ~p[2].neg -> MagLt(p[1].mag, p[2].mag)
      [] OTHER -> MagLt(p[2].mag, p[1].mag))

IntLe(a, b) == ~IntLt(b, a)

\* magnitude + 1
MagIncr(ds0) ==
  Bind(ds0, LAMBDA ds :
  Bind({i \in 1..Len(ds) : ds[i] # 9}, LAMBDA n9 :
    IF n9 = {} THEN <<1>> \o Zeros(Len(ds))
    ELSE Bind(MaxOf(n9), LAMBDA k :
           [i \in 1..Len(ds) |->
              IF i < k THEN ds[i] ELSE IF i = k THEN ds[i] + 1 ELSE 0])))

\* the operands of an addition or subtraction, padded to one length
Padded(a0, b0) ==
  Bind(<<a0, b0>>, LAMBDA p :
  Bind(IF Len(p[1]) > Len(p[2]) THEN Len(p[1]) ELSE Len(p[2]), LAMBDA n :
    <<Zeros(n - Len(p[1])) \o p[1], Zeros(n - Len(p[2])) \o p[2]>>))

\* a + b on magnitudes: position i receives a carry when the digits to its
\* right add up to a number with one more digit
MagAdd(a0, b0) ==
  Bind(Padded(a0, b0), LAMBDA q :
    LET n == Len(q[1])
        sum(i) == q[1][i] + q[2][i]
        cin(i) == \E j \in (i + 1)..n :
                    /\ sum(j) >= 10
                    /\ \A k \in (i + 1)..(j - 1) : sum(k) = 9
    IN  (IF cin(0) THEN <<1>> ELSE <<>>) \o
        [i \in 1..n |-> (sum(i) + (IF cin(i) THEN 1 ELSE 0)) % 10])

\* a - b on magnitudes, for a >= b: position i lends when the digits to its
\* right of a are less than those of b
MagSub(a0, b0) ==
  Bind(Padded(a0, b0), LAMBDA q :
    LET n == Len(q[1])
        bin(i) == \E j \in (i + 1)..n :
                    /\ q[1][j] < q[2][j]
                    /\ \A k \in (i + 1)..(j - 1) : q[1][k] = q[2][k]
    IN  [i \in 1..n |-> (q[1][i] - q[2][i] - (IF bin(i) THEN 1 ELSE 0) + 10) % 10])

\* a + b and a - b (a >= b) on non-negative integers
IntAdd(a, b) == MkInt(FALSE, MagAdd(a.mag, b.mag))

IntSub(a, b) == MkInt(FALSE, MagSub(a.mag, b.mag))

RECURSIVE NatDigits(_)
NatDigits(n0) ==
  Bind(n0, LAMBDA n :
    IF n < 10 THEN <<n>> ELSE Append(NatDigits(n \div 10), n % 10))

\* a small non-negative number as an integer value
IntOf(n) == [neg |-> FALSE, mag |-> NatDigits(n)]

Zero == [neg |-> FALSE, mag |-> <<0>>]

\* n * 10^k as an integer value
Scaled(n, k) == MkInt(FALSE, NatDigits(n) \o Zeros(k))

\* str(int)
IntStr(v0) ==
  Bind(v0, LAMBDA v :
    (IF v.neg THEN <<"-">> ELSE <<>>) \o
    [i \in 1..Len(v.mag) |-> DigitChars[v.mag[i] + 1]])

\* an integer value that fits the model checker's integers
RECURSIVE MagNat(_)
MagNat(ds0) ==
  Bind(ds0, LAMBDA ds :
    IF ds = <<>> THEN 0 ELSE MagNat(DropLast(ds, 1)) * 10 + ds[Len(ds)])

SmallInt(v) == IF v.neg THEN 0 - MagNat(v.mag) ELSE MagNat(v.mag)

\* ------------------------------------------------------------------------
\* Python's int() on strings
\* ------------------------------------------------------------------------
\* digits with single underscores between them, as int() accepts them
GroupedDigits(body, allowed, lead) ==
  /\ Len(body) > 0
  /\ \A i \in 1..Len(body) : body[i] \in allowed \cup {"_"}
  /\ lead \/ body[1] # "_"
  /\ body[Len(body)] # "_"
  /\ \A i \in 1..(Len(body) - 1) : ~(body[i] = "_" /\ body[i + 1] = "_")

HasSign(t) == Len(t) > 0 /\ t[1] \in {"+", "-"}

Unsigned(t) == IF HasSign(t) THEN Tail(t) ELSE t

IsMinus(t) == HasSign(t) /\ t[1] = "-"

\* int(s): a base-10 literal
PyInt(s0) ==
  Bind(Strip(s0), LAMBDA t :
  Bind(Unsigned(t), LAMBDA body :
    IF GroupedDigits(body, DigitSet, FALSE)
    THEN Bind(SelectSeq(body, NotUnderscore), LAMBDA ds :
           MkInt(IsMinus(t), [i \in 1..Len(ds) |-> DigitVal(ds[i])]))
    ELSE Exc("ValueError")))

HexVal(c) == (CHOOSE i \in 1..16 : HexChars[i] = c) - 1

Twice(m0) == Bind(m0, LAMBDA m : MagAdd(m, m))

\* the magnitude of a sequence of hexadecimal digits
RECURSIVE HexMag(_)
HexMag(hs0) ==
  Bind(hs0, LAMBDA hs :
    IF hs = <<>> THEN <<0>>
    ELSE MagAdd(Twice(Twice(Twice(Twice(HexMag(DropLast(hs, 1)))))),
                NatDigits(HexVal(hs[Len(hs)]))))

\* int(s, 0) for a string with a 0x prefix: a base-16 literal
PyIntBase0(s0) ==
  Bind(Strip(s0), LAMBDA t :
  Bind(LowerStr(Unsigned(t)), LAMBDA u :
    IF /\ StartsWith(u, <<"0", "x">>)
       /\ GroupedDigits(DropFirst(u, 2), HexSet, TRUE)
    THEN MkInt(IsMinus(t), HexMag(SelectSeq(DropFirst(u, 2), NotUnderscore)))
    ELSE Exc("ValueError")))

\* ------------------------------------------------------------------------
\* decimal.Decimal
\* ------------------------------------------------------------------------
\* getcontext().prec
prec == 200

AllDigits(x) == \A i \in 1..Len(x) : x[i] \in DigitSet

\* the mantissa and the exponent of a numeric string: what precedes and what
\* follows its first "e"
SplitAt(r, c) ==
  Bind({i \in 1..Len(r) : r[i] = c}, LAMBDA pos :
    IF pos = {} THEN [found |-> FALSE, many |-> FALSE, left |-> r, right |-> <<>>]
    ELSE Bind(MinOf(pos), LAMBDA k :
           [found |-> TRUE, many |-> Cardinality(pos) > 1,
            left |-> SubSeq(r, 1, k - 1), right |-> SubSeq(r, k + 1, Len(r))]))

\* the finite Decimal of a mantissa split at its point and an exponent
DecimalOfParts(neg, m, hasExp, exbody, exneg) ==
  IF /\ ~m.many
     /\ AllDigits(m.left) /\ AllDigits(m.right)
     /\ Len(m.left) + Len(m.right) > 0
     /\ (hasExp => (Len(exbody) > 0 /\ AllDigits(exbody)))
  THEN Bind(m.left \o m.right, LAMBDA all :
         [k |-> "fin", sign |-> neg,
          digits |-> NormNat([i \in 1..Len(all) |-> DigitVal(all[i])]),
          exp |-> (IF hasExp
                   THEN SmallInt(MkInt(exneg, [i \in 1..Len(exbody) |-> DigitVal(exbody[i])]))
                   ELSE 0) - Len(m.right)])
  ELSE Exc("InvalidOperation")

\* Decimal(s): a finite value is sign, coefficient digits and exponent
PyDecimal(s0) ==
  Bind(SelectSeq(Strip(s0), NotUnderscore), LAMBDA t :
  Bind(LowerStr(Unsigned(t)), LAMBDA r :
    CASE r \in {<<"i", "n", "f">>, <<"i", "n", "f", "i", "n", "i", "t", "y">>}
           -> [k |-> "inf", sign |-> IsMinus(t)]
      [] StartsWith(r, <<"n", "a", "n">>) /\ AllDigits(DropFirst(r, 3))
           -> [k |-> "nan", sign |-> IsMinus(t)]
      [] StartsWith(r, <<"s", "n", "a", "n">>) /\ AllDigits(DropFirst(r, 4))
           -> [k |-> "snan", sign |-> IsMinus(t)]
      [] OTHER ->
           Bind(SplitAt(r, "e"), LAMBDA me :
           Bind(SplitAt(me.left, "."), LAMBDA m :
             DecimalOfParts(IsMinus(t), m, me.found, Unsigned(me.right),
                            IsMinus(me.right))))))

\* rounding of a coefficient to p digits, ROUND_HALF_EVEN
DecRound(digits0, exp, p) ==
  Bind(digits0, LAMBDA digits :
    IF Len(digits) <= p THEN [digits |-> digits, exp |-> exp]
    ELSE Bind(<<SubSeq(digits, 1, p), SubSeq(digits, p + 1, Len(digits))>>, LAMBDA kr :
         Bind(IF \/ kr[2][1] > 5
                 \/ kr[2][1] = 5 /\ (\E i \in 2..Len(kr[2]) : kr[2][i] # 0)
                 \/ kr[2][1] = 5 /\ kr[1][p] % 2 = 1
              THEN MagIncr(kr[1]) ELSE kr[1], LAMBDA inc :
           IF Len(inc) > p
           THEN [digits |-> SubSeq(inc, 1, p), exp |-> exp + Len(kr[2]) + 1]
           ELSE [digits |-> inc, exp |-> exp + Len(kr[2])])))

\* Decimal(10) ** d
DecPow10(d) ==
  IF d >= 0 THEN DecRound(<<1>> \o Zeros(d), 0, prec)
  ELSE [digits |-> <<1>>, exp |-> d]

\* x * (Decimal(10) ** d), the product rounded to the context precision
DecMulPow10(x, d) ==
  Bind(DecPow10(d), LAMBDA p10 :
  Bind(DecRound(IF x.digits = <<0>> THEN <<0>>
                ELSE x.digits \o Zeros(Len(p10.digits) - 1),
                x.exp + p10.exp, prec), LAMBDA r :
    [k |-> "fin", sign |-> x.sign, digits |-> r.digits, exp |-> r.exp]))

\* int(Decimal): truncation toward zero
DecToInt(x) ==
  IF x.exp >= 0 THEN MkInt(x.sign, x.digits \o Zeros(x.exp))
  ELSE IF 0 - x.exp >= Len(x.digits) THEN Zero
       ELSE MkInt(x.sign, SubSeq(x.digits, 1, Len(x.digits) + x.exp))

\* int(Decimal(s) * (Decimal(10) ** decimals))
ScaleDecimal(s, decimals) ==
  Bind(PyDecimal(s), LAMBDA x :
    CASE IsExc(x) -> x
      [] ~IsExc(x) /\ x.k = "snan" -> Exc("InvalidOperation")
      [] ~IsExc(x) /\ x.k = "nan" -> Exc("ValueError")
      [] ~IsExc(x) /\ x.k = "inf" -> Exc("OverflowError")
      [] OTHER -> Bind(DecMulPow10(x, decimals), LAMBDA y : DecToInt(y)))

\* the value of a finite decimal: its coefficient without trailing zeros, and
\* its exponent
DecValue(x) ==
  Bind({i \in 1..Len(x.digits) : x.digits[i] # 0}, LAMBDA nz :
    IF nz = {} THEN [sign |-> FALSE, digits |-> <<0>>, exp |-> 0]
    ELSE [sign |-> x.sign, digits |-> SubSeq(x.digits, 1, MaxOf(nz)),
          exp |-> x.exp + Len(x.digits) - MaxOf(nz)])

\* Decimal(n) of an integer n
DecOfInt(n) == [k |-> "fin", sign |-> n.neg, digits |-> n.mag, exp |-> 0]

\* base^e modulo m, by repeated squaring
RECURSIVE PowMod(_, _, _)
PowMod(base, e, m) ==
  IF e = 0 THEN 1 % m
  ELSE Bind(PowMod(base, e \div 2, m), LAMBDA h :
         (((h * h) % m) * (IF e % 2 = 1 THEN base % m ELSE 1)) % m)

\* the k-th digit after the point of a / b
FracDigit(a, b, k) == (10 * (((a % b) * PowMod(10, k - 1, b)) % b)) \div b

\* a / b for natural numbers below 46340: the digits of the quotient up to
\* its last one when the expansion ends, and otherwise enough of them to round
\* to the context precision, followed by a digit that says more follow
Quotient(a, b) ==
  Bind({t \in 0..16 : ((a % b) * PowMod(10, t, b)) % b = 0}, LAMBDA ends :
    IF ends # {}
    THEN [exact |-> TRUE, exp |-> 0 - MinOf(ends),
          digits |-> NormNat(NatDigits(a \div b) \o
                             [k \in 1..MinOf(ends) |-> FracDigit(a, b, k)])]
    ELSE [exact |-> FALSE, exp |-> 0 - (prec + 9),
          digits |-> NormNat(NatDigits(a \div b) \o
                             [k \in 1..(prec + 8) |-> FracDigit(a, b, k)] \o <<1>>)])

\* x / y of finite Decimals, y not zero, in the context precision: an exact
\* quotient keeps the exponent nearest to x.exp - y.exp, an inexact one is
\* rounded.  The coefficients without their trailing zeros are below 46340.
DecDiv(x, y) ==
  IF x.digits = <<0>>
  THEN [k |-> "fin", sign |-> x.sign # y.sign, digits |-> <<0>>, exp |-> x.exp - y.exp]
  ELSE Bind(DecValue(x), LAMBDA sx :
       Bind(DecValue(y), LAMBDA sy :
       Bind(Quotient(MagNat(sx.digits), MagNat(sy.digits)), LAMBDA q :
       Bind(q.exp + sx.exp - sy.exp, LAMBDA e :
       Bind(IF q.exact
            THEN IF e >= x.exp - y.exp
                 THEN [digits |-> q.digits \o Zeros(e - (x.exp - y.exp)),
                       exp |-> x.exp - y.exp]
                 ELSE [digits |-> q.digits, exp |-> e]
            ELSE DecRound(q.digits, e, prec), LAMBDA r :
         [k |-> "fin", sign |-> x.sign # y.sign, digits |-> r.digits, exp |-> r.exp])))))

\* Decimal(n) / (Decimal(10) ** d)
DecHuman(n, d) ==
  Bind(DecPow10(d), LAMBDA p :
    DecDiv(DecOfInt(n), [k |-> "fin", sign |-> FALSE, digits |-> p.digits, exp |-> p.exp]))

\* s.strip(chars)
StripChars(s, chars) ==
  Bind({i \in 1..Len(s) : s[i] \notin chars}, LAMBDA keep :
    IF keep = {} THEN <<>> ELSE SubSeq(s, MinOf(keep), MaxOf(keep)))

\* s.split(): the runs of characters that are not white space, in order
PySplit(s) ==
  Bind({i \in 1..Len(s) : s[i] \notin WhiteSpace /\ (i = 1 \/ s[i - 1] \in WhiteSpace)},
       LAMBDA starts :
    [n \in 1..Cardinality(starts) |->
       Bind(CHOOSE i \in starts : Cardinality({j \in starts : j < i}) = n - 1, LAMBDA i :
         SubSeq(s, i, MinOf({j \in i..Len(s) : j = Len(s) \/ s[j + 1] \in WhiteSpace})))])

\* int(Decimal(s)) of parse_bigint
IntOfDecimal(s) ==
  Bind(PyDecimal(s), LAMBDA x :
    CASE IsExc(x) -> x
      [] ~IsExc(x) /\ x.k \in {"nan", "snan"} -> Exc("ValueError")
      [] ~IsExc(x) /\ x.k = "inf" -> Exc("OverflowError")
      [] OTHER -> DecToInt(x))

\* parse_bigint(s)
parse_bigint(s0) ==
  Bind(StripChars(Strip(s0), {"[", "]", "(", ")", ","}), LAMBDA s :
    IF StartsWith(s, <<"0", "x">>) \/ StartsWith(s, <<"-", "0", "x">>)
    THEN PyIntBase0(s)
    ELSE IF \E i \in 1..Len(s) : s[i] \in {"e", "E", "."}
         THEN IntOfDecimal(s)
         ELSE PyInt(s))

\* Formatting of decimals
DigitStr(ds) == [i \in 1..Len(ds) |-> DigitChars[ds[i] + 1]]

\* format(d, "f"): sign, integer digits and, for a negative exponent, a point
\* and the fractional digits
format_f(d) ==
  (IF d.sign THEN <<"-">> ELSE <<>>) \o
  (IF d.exp >= 0
   THEN IF d.digits = <<0>> THEN <<"0">> ELSE DigitStr(d.digits \o Zeros(d.exp))
   ELSE IF Len(d.digits) > 0 - d.exp
        THEN DigitStr(SubSeq(d.digits, 1, Len(d.digits) + d.exp)) \o <<".">> \o
             DigitStr(SubSeq(d.digits, Len(d.digits) + d.exp + 1, Len(d.digits)))
        ELSE <<"0", ".">> \o DigitStr(Zeros(0 - d.exp - Len(d.digits)) \o d.digits))

\* s.rstrip(c)
rstrip(s, c) ==
  Bind({i \in 1..Len(s) : s[i] # c}, LAMBDA keep :
    IF keep = {} THEN <<>> ELSE SubSeq(s, 1, MaxOf(keep)))

\* dec_to_fixed(d)
dec_to_fixed(d) ==
  Bind(rstrip(rstrip(format_f(d), "0"), "."), LAMBDA s :
    IF s = <<>> THEN <<"0">> ELSE s)

\* f"{n:,}" on the digits of a natural number
RECURSIVE Grouped(_)
Grouped(ds) ==
  IF Len(ds) <= 3 THEN ds
  ELSE Grouped(DropLast(ds, 3)) \o <<",">> \o SubSeq(ds, Len(ds) - 2, Len(ds))

\* int_commas(n), n an integer
int_commas(n) ==
  (IF n.neg THEN <<"-">> ELSE <<>>) \o Grouped(DigitStr(n.mag))

\* dec_to_fixed_commas(d): the string returned, or the exception of int(i)
dec_to_fixed_commas(d) ==
  Bind(dec_to_fixed(d), LAMBDA s0 :
  Bind(StartsWith(s0, <<"-">>), LAMBDA neg :
  Bind(SplitAt(IF neg THEN Tail(s0) ELSE s0, "."), LAMBDA sp :
  Bind(PyInt(sp.left), LAMBDA i :
    IF IsExc(i) THEN i
    ELSE [str |-> (IF neg THEN <<"-">> ELSE <<>>) \o int_commas(i) \o
                  (IF sp.right # <<>> THEN <<".">> \o sp.right ELSE <<>>)]))))

\* ------------------------------------------------------------------------
\* Unit conversion
\* ------------------------------------------------------------------------
Wei == <<"w", "e", "i">>

S_0 == <<"0">>

to_wei_18(human) ==
  Bind(Strip(human), LAMBDA s :
    IF EndsWith(s, Wei) THEN PyInt(DropLast(s, 3))
    ELSE ScaleDecimal(s, 18))

\* (a variant that scales a "wei" amount like any other)
to_wei_scaling_wei(human, decimals) ==
  Bind(Strip(human), LAMBDA s :
    IF EndsWith(s, Wei) THEN ScaleDecimal(DropLast(s, 3), decimals)
    ELSE ScaleDecimal(s, decimals))

to_wei_with_decimals(human, decimals) ==
  Bind(Strip(human), LAMBDA s :
    IF EndsWith(s, Wei) THEN PyInt(DropLast(s, 3))
    ELSE ScaleDecimal(s, decimals))

\* ------------------------------------------------------------------------
\* Replies of the chain client
\* ------------------------------------------------------------------------
\* big_lt(a, b)
big_lt(a, b) == IntLt(a, b)

\* wei_str(x): str(int(x))
wei_str(x) == IntStr(x)

\* out.split()[0] if out else out
FirstToken(out) ==
  Bind(Strip(out), LAMBDA t :
  Bind({i \in 1..Len(t) : t[i] \in WhiteSpace}, LAMBDA ws :
    IF ws = {} THEN t ELSE SubSeq(t, 1, MinOf(ws) - 1)))

\* int(x, 0) if x.startswith("0x") else int(x)
ParseReply(x0) ==
  Bind(x0, LAMBDA x :
    IF StartsWith(x, <<"0", "x">>) THEN PyIntBase0(x) ELSE PyInt(x))

\* the value token_decimals returns for the first token of a decimals() reply
TokenDecimalsOfReply(out0) ==
  Bind(out0, LAMBDA out :
    IF out = <<>> THEN IntOf(18)
    ELSE Bind(ParseReply(Strip(out)), LAMBDA v :
           IF IsExc(v) THEN IntOf(18) ELSE v))

\* ------------------------------------------------------------------------
\* State
\* ------------------------------------------------------------------------
VARIABLES
  cmd,        \* args.cmd, the sub-command of the invocation
  args,       \* the parsed command line (strings as the user typed them)
  pc,         \* the statement the invocation is at
  status,     \* "running", "ok", "died" (die: sys.exit) or "raised" (uncaught exception)
  err,        \* what ended the invocation
  loc,        \* the handler's local variables
  txlog,      \* the cast send commands run so far, in order
  balTorc,    \* chain: TORC balance of the wallet
  balEth,     \* chain: ETH balance of the wallet
  balLp,      \* chain: pair (LP token) balance of the wallet
  allowance,  \* chain: allowance of the router, per token
  pairAddr,   \* chain: factory.getPair(TORC, WETH)
  decReply,   \* chain: what cast prints for TORC.decimals()
  pool,       \* chain: the pair's reserves and token0, and how cast prints them
  clock,      \* what date +%s prints
  peer        \* a second invocation running at the same time, while it waits

chainVars == <<balTorc, balEth, balLp, allowance, pairAddr, decReply, pool, clock>>

vars == <<cmd, args, pc, status, err, loc, txlog, chainVars, peer>>

None == [none |-> TRUE]

\* the pair of an invocation that does not read its reserves
NoPool == [r0 |-> None, r1 |-> None, ts |-> None, token0 |-> <<>>, style |-> ""]

NoLocals ==
  [to_addr |-> "", torc_decimals |-> None, amt_token_min |-> None,
   amt_eth_min |-> None, deadline |-> None, token_desired_wei |-> None,
   eth_wei |-> None, deployer |-> "", sup_torc |-> <<>>, sup_eth |-> <<>>,
   sup_torc_i |-> None, sup_eth_i |-> None, weth |-> "", fct |-> "",
   pair |-> "", owner |-> "", lp_bal |-> None, liquidity |-> None,
   ap_current |-> None, amount_in |-> None, amount_out_min |-> None,
   path |-> None, reserve0 |-> None, reserve1 |-> None, t0 |-> <<>>,
   dec_torc |-> None, dec_other |-> None, reserve_torc |-> None,
   reserve_eth |-> None, price |-> None, shown |-> <<>>, role_hash |-> "",
   has |-> ""]

\* the seconds added to the current time for a default deadline
DefaultDeadlineSecs == 300

\* ------------------------------------------------------------------------
\* run(): a cast (or date) subprocess.  It prints its output, or exits with a
\* failure status (run calls die), or cannot be started (subprocess.run raises)
\* ------------------------------------------------------------------------
RunOutcomes == {"ok", "exit", "oserror"}

die(msg) ==
  /\ pc' = "done"
  /\ status' = "died"
  /\ err' = msg

raise(e) ==
  /\ pc' = "done"
  /\ status' = "raised"
  /\ err' = e

continue(next) ==
  /\ pc' = next
  /\ UNCHANGED <<status, err>>

\* (a variant that runs the command again)
run_retries(oc) == UNCHANGED <<pc, status, err>>

\* the failure of run() for an outcome other than "ok"
run_fails(oc) ==
  IF oc = "exit" THEN die("CommandFailed") ELSE raise("OSError")

\* a cast send command line and whether the transaction went through
Tx(to, sig, targs, value, ok) ==
  [to |-> to, sig |-> sig, args |-> targs, value |-> value, ok |-> ok]

NoValue == <<>>

\* ------------------------------------------------------------------------
\* approve_exact_if_needed(rpc, pk, token, spender, amount_wei)
\* ------------------------------------------------------------------------
\* (a variant whose balance guards run after the approval)
AddOrderGuardLate ==
  <<"add_to", "add_decimals", "add_mins", "add_deadline", "add_desired",
    "add_deployer", "add_bal_torc", "add_bal_eth", "add_weth", "ap_owner",
    "add_guard", "add_send", "done">>

\* (a variant that approves after it has added the liquidity)
AddOrderApproveLast ==
  <<"add_to", "add_decimals", "add_mins", "add_deadline", "add_desired",
    "add_deployer", "add_bal_torc", "add_bal_eth", "add_weth", "add_guard",
    "add_send", "ap_owner", "done">>

\* the statements of the lp:add-eth handler, in program order; "ap_owner" is
\* the call of approve_exact_if_needed
AddOrder ==
  <<"add_to", "add_decimals", "add_mins", "add_deadline", "add_desired",
    "add_deployer", "add_bal_torc", "add_bal_eth", "add_weth", "add_guard",
    "ap_owner", "add_send", "done">>

\* the statements of the lp:remove-eth handlers, in program order
RemoveOrder ==
  <<"rm_to", "rm_mins", "rm_deadline", "rm_weth", "rm_factory", "rm_pair",
    "rm_owner", "rm_lpbal", "rm_want", "ap_owner", "rm_send", "done">>

\* two calls of approve_exact_if_needed in a row
EnsureOrder == <<"ea_call", "ap_owner", "ea_return", "done">>

RemoveCmds == {"lp:remove-eth", "lp:remove-eth-supporting"}

RolesCmds == {"roles:grant", "roles:revoke", "roles:renounce", "roles:check"}

\* the statements of the roles handler ("ro_hash", "ro_act"), of
\* lp:router-info ("ri_factory", "ri_weth") and of lp:get-pair
\* ("gp_factory", "gp_pair"), in program order
QueryOrder ==
  CASE cmd = "lp:router-info" -> <<"ri_factory", "ri_weth", "done">>
    [] cmd = "lp:get-pair" -> <<"gp_factory", "gp_pair", "done">>
    [] OTHER -> <<"ro_hash", "ro_act", "done">>

\* the statements of the lp:set-pair-on-torc handler, in program order
SetPairOrder == <<"sp_factory", "sp_pair", "sp_send", "done">>

\* the statements of quote_torc_price_per_eth and, from "q_decimals" on, of
\* the rest of the lp:quote handler, in program order
QuoteOrder ==
  <<"q_factory", "q_pair", "q_reserves", "q_token0", "q_dec_torc",
    "q_dec_other", "q_price", "q_decimals", "q_say", "done">>

\* the statements of the fees:process handler, in program order
FeesOrder == <<"fp_amounts", "fp_path", "fp_deadline", "fp_send", "done">>

Order ==
  CASE cmd = "lp:add-eth" -> AddOrder
    [] cmd \in RemoveCmds -> RemoveOrder
    [] cmd = "fees:process" -> FeesOrder
    [] cmd = "lp:set-pair-on-torc" -> SetPairOrder
    [] cmd = "lp:quote" -> QuoteOrder
    [] cmd \in RolesCmds \cup {"lp:router-info", "lp:get-pair"} -> QueryOrder
    [] OTHER -> EnsureOrder

\* the statement that follows statement l of the handler
After(l) ==
  Bind(Order, LAMBDA o : o[(CHOOSE i \in 1..Len(o) : o[i] = l) + 1])

\* the token and amount_wei a handler passes to approve_exact_if_needed
ApproveTarget ==
  CASE cmd = "lp:add-eth" -> [token |-> "TORC", amount |-> loc.token_desired_wei]
    [] cmd \in RemoveCmds -> [token |-> loc.pair, amount |-> loc.liquidity]
    [] OTHER -> [token |-> args.token, amount |-> args.amounts[loc.ea_i]]

\* where the caller continues after the approval
AfterApprove == After("ap_owner")

\* owner = cast_wallet_address(pk)
ApproveOwner ==
  /\ pc = "ap_owner"
  /\ \E oc \in RunOutcomes :
       IF oc = "ok"
       THEN /\ loc' = [loc EXCEPT !.owner = "WALLET"]
            /\ continue("ap_allowance")
       ELSE /\ run_fails(oc)
            /\ UNCHANGED loc
  /\ UNCHANGED <<peer, cmd, args, txlog, chainVars>>

\* current, as parsed from the allowance reply
AllowanceOfReply(reply) ==
  LET a == IF reply = <<>> THEN <<"0">> ELSE reply
      v == ParseReply(a)
  IN  IF IsExc(v) THEN PyInt(FirstToken(a)) ELSE v

\* (a variant that approves whatever the allowance is)
NeedsApprovalAlways(current, amount) == TRUE

\* (a variant that also approves when the allowance equals the amount)
NeedsApprovalLe(current, amount) == IntLe(current, amount)

NeedsApproval(current, amount) == IntLt(current, amount)

\* allowance = cast_call(...); current = int(allowance); if current < amount
ApproveAllowance ==
  /\ pc = "ap_allowance"
  /\ \E oc \in RunOutcomes :
       IF oc = "ok"
       THEN LET current == AllowanceOfReply(FirstToken(IntStr(allowance[ApproveTarget.token])))
            IN  IF IsExc(current)
                THEN raise(current.exc) /\ UNCHANGED loc
                ELSE /\ loc' = [loc EXCEPT !.ap_current = current]
                     /\ IF NeedsApproval(current, ApproveTarget.amount)
                        THEN continue("ap_send0")
                        ELSE continue(AfterApprove)
       ELSE /\ run_fails(oc)
            /\ UNCHANGED loc
  /\ UNCHANGED <<peer, cmd, args, txlog, chainVars>>

\* the transactions an ERC-20 token accepts
ApproveArgs(amount) == <<"ROUTER", IntStr(amount)>>

\* (a variant that goes straight to the exact approval)
ApproveSkipZero ==
  /\ pc = "ap_send0"
  /\ continue("ap_sendN")
  /\ UNCHANGED <<peer, cmd, args, loc, txlog, chainVars>>

\* cast_send(rpc, pk, token, "approve(address,uint256)", spender, 0)
ApproveSendZero ==
  /\ pc = "ap_send0"
  /\ \E oc \in RunOutcomes :
       CASE oc = "ok" ->
              /\ txlog' = Append(txlog, Tx(ApproveTarget.token, "approve", ApproveArgs(Zero), NoValue, TRUE))
              /\ allowance' = [allowance EXCEPT ![ApproveTarget.token] = Zero]
              /\ continue("ap_sendN")
         [] oc = "exit" ->
              /\ txlog' = Append(txlog, Tx(ApproveTarget.token, "approve", ApproveArgs(Zero), NoValue, FALSE))
              /\ run_fails(oc)
              /\ UNCHANGED allowance
         [] OTHER ->
              /\ run_fails(oc)
              /\ UNCHANGED <<txlog, allowance>>
  /\ UNCHANGED <<peer, cmd, args, loc, balTorc, balEth, balLp, pairAddr, decReply, pool, clock>>

\* cast_send(rpc, pk, token, "approve(address,uint256)", spender, amount_wei)
ApproveSendAmount ==
  /\ pc = "ap_sendN"
  /\ \E oc \in RunOutcomes :
       CASE oc = "ok" ->
              /\ txlog' = Append(txlog, Tx(ApproveTarget.token, "approve", ApproveArgs(ApproveTarget.amount), NoValue, TRUE))
              /\ allowance' = [allowance EXCEPT ![ApproveTarget.token] = ApproveTarget.amount]
              /\ continue(AfterApprove)
         [] oc = "exit" ->
              /\ txlog' = Append(txlog, Tx(ApproveTarget.token, "approve", ApproveArgs(ApproveTarget.amount), NoValue, FALSE))
              /\ run_fails(oc)
              /\ UNCHANGED allowance
         [] OTHER ->
              /\ run_fails(oc)
              /\ UNCHANGED <<txlog, allowance>>
  /\ UNCHANGED <<peer, cmd, args, loc, balTorc, balEth, balLp, pairAddr, decReply, pool, clock>>

approve_exact_if_needed ==
  \/ ApproveOwner
  \/ ApproveAllowance
  \/ ApproveSendZero
  \/ ApproveSendAmount

\* ------------------------------------------------------------------------
\* lp:add-eth
\* ------------------------------------------------------------------------
\* to_addr = args.to or cast_wallet_address(PK)
AddTo ==
  /\ pc = "add_to"
  /\ IF args.to # ""
     THEN /\ loc' = [loc EXCEPT !.to_addr = args.to]
          /\ continue(After("add_to"))
     ELSE \E oc \in RunOutcomes :
            IF oc = "ok"
            THEN /\ loc' = [loc EXCEPT !.to_addr = "WALLET"]
                 /\ continue(After("add_to"))
            ELSE /\ run_fails(oc)
                 /\ UNCHANGED loc
  /\ UNCHANGED <<peer, cmd, args, txlog, chainVars>>

\* token_decimals(rpc, token): what the call does for an outcome of cast call.
\* except Exception does not catch the SystemExit of die().
token_decimals(oc, reply) ==
  CASE oc = "ok" -> TokenDecimalsOfReply(FirstToken(reply))
    [] oc = "oserror" -> IntOf(18)
    [] OTHER -> Exc("SystemExit")

\* torc_decimals = token_decimals(RPC_URL, TORC)
AddDecimals ==
  /\ pc = "add_decimals"
  /\ \E oc \in RunOutcomes :
       LET d == token_decimals(oc, decReply)
       IN  IF IsExc(d)
           THEN /\ die("CommandFailed")
                /\ UNCHANGED loc
           ELSE /\ loc' = [loc EXCEPT !.torc_decimals = d]
                /\ continue(After("add_decimals"))
  /\ UNCHANGED <<peer, cmd, args, txlog, chainVars>>

\* (a variant that reads the minimum as a raw integer)
add_token_min_raw(human, decimals) == PyInt(human)

\* the minimum amounts of lp:add-eth
add_token_min(human, decimals) == to_wei_with_decimals(human, decimals)

add_eth_min(human) == to_wei_with_decimals(human, 18)

\* amt_token_min = ...; amt_eth_min = ...
AddMins ==
  /\ pc = "add_mins"
  /\ LET tmin == add_token_min(args.amountTokenMin, SmallInt(loc.torc_decimals))
         emin == add_eth_min(args.amountETHMin)
     IN  CASE IsExc(tmin) -> raise(tmin.exc) /\ UNCHANGED loc
           [] ~IsExc(tmin) /\ IsExc(emin) -> raise(emin.exc) /\ UNCHANGED loc
           [] OTHER ->
                /\ loc' = [loc EXCEPT !.amt_token_min = tmin, !.amt_eth_min = emin]
                /\ continue(After("add_mins"))
  /\ UNCHANGED <<peer, cmd, args, txlog, chainVars>>

\* (a variant whose default deadline is the current time)
default_deadline_now(t) == t

\* int(run(["date", "+%s"])) + 300
default_deadline(t) == IntAdd(t, IntOf(DefaultDeadlineSecs))

\* deadline = int(args.deadline or (int(run(["date", "+%s"])) + 300))
Deadline(next) ==
  IF args.deadline # <<>>
  THEN LET d == PyInt(args.deadline)
       IN  IF IsExc(d)
           THEN raise(d.exc) /\ UNCHANGED loc
           ELSE /\ loc' = [loc EXCEPT !.deadline = d]
                /\ continue(next)
  ELSE \E oc \in RunOutcomes :
         IF oc = "ok"
         THEN LET t == PyInt(IntStr(clock))
              IN  /\ loc' = [loc EXCEPT !.deadline = default_deadline(t)]
                  /\ continue(next)
         ELSE /\ run_fails(oc)
              /\ UNCHANGED loc

AddDeadline ==
  /\ pc = "add_deadline"
  /\ Deadline(After("add_deadline"))
  /\ UNCHANGED <<peer, cmd, args, txlog, chainVars>>

\* token_desired_wei = ...; eth_wei = ...
AddDesired ==
  /\ pc = "add_desired"
  /\ LET tw == to_wei_with_decimals(args.amountTokenDesired, SmallInt(loc.torc_decimals))
         ew == to_wei_with_decimals(args.amountETH, 18)
     IN  CASE IsExc(tw) -> raise(tw.exc) /\ UNCHANGED loc
           [] ~IsExc(tw) /\ IsExc(ew) -> raise(ew.exc) /\ UNCHANGED loc
           [] OTHER ->
                /\ loc' = [loc EXCEPT !.token_desired_wei = tw, !.eth_wei = ew]
                /\ continue(After("add_desired"))
  /\ UNCHANGED <<peer, cmd, args, txlog, chainVars>>

\* deployer = cast_wallet_address(PK)
AddDeployer ==
  /\ pc = "add_deployer"
  /\ \E oc \in RunOutcomes :
       IF oc = "ok"
       THEN /\ loc' = [loc EXCEPT !.deployer = "WALLET"]
            /\ continue(After("add_deployer"))
       ELSE /\ run_fails(oc)
            /\ UNCHANGED loc
  /\ UNCHANGED <<peer, cmd, args, txlog, chainVars>>

\* sup_torc = cast_call(RPC_URL, TORC, "balanceOf(address)(uint256)", deployer)
AddBalTorc ==
  /\ pc = "add_bal_torc"
  /\ \E oc \in RunOutcomes :
       IF oc = "ok"
       THEN /\ loc' = [loc EXCEPT !.sup_torc = FirstToken(IntStr(balTorc))]
            /\ continue(After("add_bal_torc"))
       ELSE /\ run_fails(oc)
            /\ UNCHANGED loc
  /\ UNCHANGED <<peer, cmd, args, txlog, chainVars>>

\* sup_eth = cast_balance(RPC_URL, deployer); sup_torc_i = ...; sup_eth_i = ...
AddBalEth ==
  /\ pc = "add_bal_eth"
  /\ \E oc \in RunOutcomes :
       IF oc = "ok"
       THEN LET sup_eth == FirstToken(IntStr(balEth))
                ti == ParseReply(loc.sup_torc)
                ei == ParseReply(sup_eth)
            IN  CASE IsExc(ti) -> raise(ti.exc) /\ UNCHANGED loc
                  [] ~IsExc(ti) /\ IsExc(ei) -> raise(ei.exc) /\ UNCHANGED loc
                  [] OTHER ->
                       /\ loc' = [loc EXCEPT !.sup_eth = sup_eth,
                                             !.sup_torc_i = ti, !.sup_eth_i = ei]
                       /\ continue(After("add_bal_eth"))
       ELSE /\ run_fails(oc)
            /\ UNCHANGED loc
  /\ UNCHANGED <<peer, cmd, args, txlog, chainVars>>

\* weth = router_weth(RPC_URL, ROUTER_ADDR)
AddWeth ==
  /\ pc = "add_weth"
  /\ \E oc \in RunOutcomes :
       IF oc = "ok"
       THEN /\ loc' = [loc EXCEPT !.weth = "WETH"]
            /\ continue(After("add_weth"))
       ELSE /\ run_fails(oc)
            /\ UNCHANGED loc
  /\ UNCHANGED <<peer, cmd, args, txlog, chainVars>>

\* (a variant that checks the token balance only)
add_guard_torc_only(sup_torc_i, token_desired_wei, sup_eth_i, eth_wei) ==
  CASE big_lt(sup_torc_i, token_desired_wei) -> "InsufficientTORC"
    [] OTHER -> "pass"

\* the two balance guards of lp:add-eth: which one stops the invocation
add_guard(sup_torc_i, token_desired_wei, sup_eth_i, eth_wei) ==
  CASE big_lt(sup_torc_i, token_desired_wei) -> "InsufficientTORC"
    [] big_lt(sup_eth_i, eth_wei) -> "InsufficientETH"
    [] OTHER -> "pass"

\* if big_lt(...): die(...); then the call of approve_exact_if_needed
AddGuard ==
  /\ pc = "add_guard"
  /\ LET g == add_guard(loc.sup_torc_i, loc.token_desired_wei, loc.sup_eth_i, loc.eth_wei)
     IN  IF g # "pass"
         THEN die(g) /\ UNCHANGED loc
         ELSE continue(After("add_guard")) /\ UNCHANGED loc
  /\ UNCHANGED <<peer, cmd, args, txlog, chainVars>>

\* the arguments of the addLiquidityETH command line
AddLiquidityArgs ==
  <<"TORC", wei_str(loc.token_desired_wei), wei_str(loc.amt_token_min),
    wei_str(loc.amt_eth_min), loc.to_addr, IntStr(loc.deadline)>>

\* what the router and the token require of addLiquidityETH
RouterAcceptsAdd ==
  /\ ~loc.token_desired_wei.neg /\ ~loc.eth_wei.neg
  /\ ~loc.amt_token_min.neg /\ ~loc.amt_eth_min.neg
  /\ loc.token_desired_wei # Zero /\ loc.eth_wei # Zero
  /\ IntLe(loc.amt_token_min, loc.token_desired_wei)
  /\ IntLe(loc.amt_eth_min, loc.eth_wei)
  /\ IntLe(loc.token_desired_wei, balTorc)
  /\ IntLe(loc.token_desired_wei, allowance["TORC"])
  /\ IntLe(loc.eth_wei, balEth)
  /\ IntLe(clock, loc.deadline)

\* (a variant that reads the balance and the allowance again before it submits)
AddSendRechecks ==
  /\ pc = "add_send"
  /\ IF IntLe(loc.token_desired_wei, balTorc) /\ IntLe(loc.token_desired_wei, allowance["TORC"])
     THEN \E oc \in RunOutcomes :
            CASE oc = "ok" ->
                   /\ RouterAcceptsAdd
                   /\ txlog' = Append(txlog, Tx("ROUTER", "addLiquidityETH", AddLiquidityArgs,
                                                wei_str(loc.eth_wei), TRUE))
                   /\ balTorc' = IntSub(balTorc, loc.token_desired_wei)
                   /\ balEth' = IntSub(balEth, loc.eth_wei)
                   /\ allowance' = [allowance EXCEPT
                                      !["TORC"] = IntSub(allowance["TORC"], loc.token_desired_wei)]
                   /\ pc' = After(pc)
                   /\ status' = "ok"
                   /\ UNCHANGED err
              [] oc = "exit" ->
                   /\ txlog' = Append(txlog, Tx("ROUTER", "addLiquidityETH", AddLiquidityArgs,
                                                wei_str(loc.eth_wei), FALSE))
                   /\ run_fails(oc)
                   /\ UNCHANGED <<balTorc, balEth, allowance>>
              [] OTHER ->
                   /\ run_fails(oc)
                   /\ UNCHANGED <<txlog, balTorc, balEth, allowance>>
     ELSE /\ die("StalePreflight")
          /\ UNCHANGED <<txlog, balTorc, balEth, allowance>>
  /\ UNCHANGED <<peer, cmd, args, loc, balLp, pairAddr, decReply, pool, clock>>

\* run(["cast", "send", ROUTER_ADDR, "addLiquidityETH(...)", ..., "--value", wei_str(eth_wei)])
AddSend ==
  /\ pc = "add_send"
  /\ \E oc \in RunOutcomes :
       CASE oc = "ok" ->
              /\ RouterAcceptsAdd
              /\ txlog' = Append(txlog, Tx("ROUTER", "addLiquidityETH", AddLiquidityArgs,
                                           wei_str(loc.eth_wei), TRUE))
              /\ balTorc' = IntSub(balTorc, loc.token_desired_wei)
              /\ balEth' = IntSub(balEth, loc.eth_wei)
              /\ allowance' = [allowance EXCEPT
                                 !["TORC"] = IntSub(allowance["TORC"], loc.token_desired_wei)]
              /\ pc' = After(pc)
              /\ status' = "ok"
              /\ UNCHANGED err
         [] oc = "exit" ->
              /\ txlog' = Append(txlog, Tx("ROUTER", "addLiquidityETH", AddLiquidityArgs,
                                           wei_str(loc.eth_wei), FALSE))
              /\ run_fails(oc)
              /\ UNCHANGED <<balTorc, balEth, allowance>>
         [] OTHER ->
              /\ run_fails(oc)
              /\ UNCHANGED <<txlog, balTorc, balEth, allowance>>
  /\ UNCHANGED <<peer, cmd, args, loc, balLp, pairAddr, decReply, pool, clock>>

lp_add_eth ==
  \/ AddTo
  \/ AddDecimals
  \/ AddMins
  \/ AddDeadline
  \/ AddDesired
  \/ AddDeployer
  \/ AddBalTorc
  \/ AddBalEth
  \/ AddWeth
  \/ AddGuard
  \/ AddSend

\* ------------------------------------------------------------------------
\* lp:remove-eth and lp:remove-eth-supporting
\* ------------------------------------------------------------------------
\* to_addr = args.to or cast_wallet_address(PK)
RmTo ==
  /\ pc = "rm_to"
  /\ IF args.to # ""
     THEN /\ loc' = [loc EXCEPT !.to_addr = args.to]
          /\ continue(After("rm_to"))
     ELSE \E oc \in RunOutcomes :
            IF oc = "ok"
            THEN /\ loc' = [loc EXCEPT !.to_addr = "WALLET"]
                 /\ continue(After("rm_to"))
            ELSE /\ run_fails(oc)
                 /\ UNCHANGED loc
  /\ UNCHANGED <<peer, cmd, args, txlog, chainVars>>

\* amt_token_min = int(args.amountTokenMinWei); amt_eth_min = int(args.amountETHMinWei)
RmMins ==
  /\ pc = "rm_mins"
  /\ LET tmin == PyInt(args.amountTokenMinWei)
         emin == PyInt(args.amountETHMinWei)
     IN  CASE IsExc(tmin) -> raise(tmin.exc) /\ UNCHANGED loc
           [] ~IsExc(tmin) /\ IsExc(emin) -> raise(emin.exc) /\ UNCHANGED loc
           [] OTHER ->
                /\ loc' = [loc EXCEPT !.amt_token_min = tmin, !.amt_eth_min = emin]
                /\ continue(After("rm_mins"))
  /\ UNCHANGED <<peer, cmd, args, txlog, chainVars>>

RmDeadline ==
  /\ pc = "rm_deadline"
  /\ Deadline(After("rm_deadline"))
  /\ UNCHANGED <<peer, cmd, args, txlog, chainVars>>

\* weth = router_weth(RPC_URL, ROUTER_ADDR)
RmWeth ==
  /\ pc = "rm_weth"
  /\ \E oc \in RunOutcomes :
       IF oc = "ok"
       THEN /\ loc' = [loc EXCEPT !.weth = "WETH"]
            /\ continue(After("rm_weth"))
       ELSE /\ run_fails(oc)
            /\ UNCHANGED loc
  /\ UNCHANGED <<peer, cmd, args, txlog, chainVars>>

\* fct = router_factory(RPC_URL, ROUTER_ADDR)
RmFactory ==
  /\ pc = "rm_factory"
  /\ \E oc \in RunOutcomes :
       IF oc = "ok"
       THEN /\ loc' = [loc EXCEPT !.fct = "FACTORY"]
            /\ continue(After("rm_factory"))
       ELSE /\ run_fails(oc)
            /\ UNCHANGED loc
  /\ UNCHANGED <<peer, cmd, args, txlog, chainVars>>

\* pair = get_pair(...); if pair.lower() == "0x00...00": die(...)
RmPair ==
  /\ pc = "rm_pair"
  /\ \E oc \in RunOutcomes :
       IF oc = "ok"
       THEN IF pairAddr = "ZERO"
            THEN die("NoPair") /\ UNCHANGED loc
            ELSE /\ loc' = [loc EXCEPT !.pair = pairAddr]
                 /\ continue(After("rm_pair"))
       ELSE /\ run_fails(oc)
            /\ UNCHANGED loc
  /\ UNCHANGED <<peer, cmd, args, txlog, chainVars>>

\* owner = cast_wallet_address(PK)
RmOwner ==
  /\ pc = "rm_owner"
  /\ \E oc \in RunOutcomes :
       IF oc = "ok"
       THEN /\ loc' = [loc EXCEPT !.owner = "WALLET"]
            /\ continue(After("rm_owner"))
       ELSE /\ run_fails(oc)
            /\ UNCHANGED loc
  /\ UNCHANGED <<peer, cmd, args, txlog, chainVars>>

\* lp_bal_raw = pair_balance_of(RPC_URL, pair, owner); lp_bal = int(lp_bal_raw)
\* (an empty pair address is no contract: the call cannot succeed)
RmLpBal ==
  /\ pc = "rm_lpbal"
  /\ \E oc \in RunOutcomes :
       IF oc = "ok"
       THEN /\ loc.pair # ""
            /\ LET b == ParseReply(FirstToken(IntStr(balLp)))
               IN  IF IsExc(b)
                   THEN raise(b.exc) /\ UNCHANGED loc
                   ELSE /\ loc' = [loc EXCEPT !.lp_bal = b]
                        /\ continue(After("rm_lpbal"))
       ELSE /\ run_fails(oc)
            /\ UNCHANGED loc
  /\ UNCHANGED <<peer, cmd, args, txlog, chainVars>>

All == <<"a", "l", "l">>

\* (a variant that lets "all" of an empty balance through)
remove_liquidity_any(liquidity_arg, lp_bal) ==
  LET want == Strip(liquidity_arg)
  IN  CASE want = All -> lp_bal
        [] want # All /\ EndsWith(want, Wei) -> PyInt(DropLast(want, 3))
        [] OTHER -> to_wei_18(want)

\* the liquidity a specifier asks for, or how the resolution fails
remove_liquidity(liquidity_arg, lp_bal) ==
  LET want == Strip(liquidity_arg)
  IN  CASE want = All -> IF lp_bal = Zero THEN Exc("NothingToRemove") ELSE lp_bal
        [] want # All /\ EndsWith(want, Wei) -> PyInt(DropLast(want, 3))
        [] OTHER -> to_wei_18(want)

\* want = args.liquidity.strip() ...; if big_lt(lp_bal, liquidity): die(...)
RmWant ==
  /\ pc = "rm_want"
  /\ LET l == remove_liquidity(args.liquidity, loc.lp_bal)
     IN  CASE IsExc(l) /\ l.exc = "NothingToRemove" -> die("NothingToRemove") /\ UNCHANGED loc
           [] IsExc(l) /\ l.exc # "NothingToRemove" -> raise(l.exc) /\ UNCHANGED loc
           [] OTHER ->
                IF big_lt(loc.lp_bal, l)
                THEN die("InsufficientLP") /\ UNCHANGED loc
                ELSE /\ loc' = [loc EXCEPT !.liquidity = l]
                     /\ continue(After("rm_want"))
  /\ UNCHANGED <<peer, cmd, args, txlog, chainVars>>

\* the signature of the removal call
RemoveSig ==
  IF cmd = "lp:remove-eth" THEN "removeLiquidityETH"
  ELSE "removeLiquidityETHSupportingFeeOnTransferTokens"

\* (a variant that scales the token minimum by 10^18)
RemoveLiquidityArgsScaled ==
  <<"TORC", IntStr(loc.liquidity), IntStr(loc.amt_token_min) \o Repeat("0", 18),
    IntStr(loc.amt_eth_min), loc.to_addr, IntStr(loc.deadline)>>

\* (a variant whose fee-on-transfer entry point gives up the minimums)
RemoveLiquidityArgsLax ==
  IF cmd = "lp:remove-eth"
  THEN <<"TORC", IntStr(loc.liquidity), IntStr(loc.amt_token_min),
         IntStr(loc.amt_eth_min), loc.to_addr, IntStr(loc.deadline)>>
  ELSE <<"TORC", IntStr(loc.liquidity), S_0, S_0, loc.to_addr, IntStr(loc.deadline)>>

\* the arguments of the removal call, as cast_send passes them (map(str, args))
RemoveLiquidityArgs ==
  <<"TORC", IntStr(loc.liquidity), IntStr(loc.amt_token_min),
    IntStr(loc.amt_eth_min), loc.to_addr, IntStr(loc.deadline)>>

\* what the router and the pair require of a removal.  The pool pays out one
\* unit of each asset per unit of liquidity.
RouterAcceptsRemove ==
  /\ ~loc.liquidity.neg /\ loc.liquidity # Zero
  /\ ~loc.amt_token_min.neg /\ ~loc.amt_eth_min.neg
  /\ IntLe(loc.liquidity, balLp)
  /\ IntLe(loc.liquidity, allowance[loc.pair])
  /\ IntLe(loc.amt_token_min, loc.liquidity)
  /\ IntLe(loc.amt_eth_min, loc.liquidity)
  /\ IntLe(clock, loc.deadline)

\* cast_send(RPC_URL, PK, ROUTER_ADDR, "removeLiquidityETH...(...)", ...)
RmSend ==
  /\ pc = "rm_send"
  /\ \E oc \in RunOutcomes :
       CASE oc = "ok" ->
              /\ RouterAcceptsRemove
              /\ txlog' = Append(txlog, Tx("ROUTER", RemoveSig, RemoveLiquidityArgs, NoValue, TRUE))
              /\ balLp' = IntSub(balLp, loc.liquidity)
              /\ balTorc' = IntAdd(balTorc, loc.liquidity)
              /\ balEth' = IntAdd(balEth, loc.liquidity)
              /\ allowance' = [allowance EXCEPT
                                 ![loc.pair] = IntSub(allowance[loc.pair], loc.liquidity)]
              /\ pc' = After(pc)
              /\ status' = "ok"
              /\ UNCHANGED err
         [] oc = "exit" ->
              /\ txlog' = Append(txlog, Tx("ROUTER", RemoveSig, RemoveLiquidityArgs, NoValue, FALSE))
              /\ run_fails(oc)
              /\ UNCHANGED <<balTorc, balEth, balLp, allowance>>
         [] OTHER ->
              /\ run_fails(oc)
              /\ UNCHANGED <<txlog, balTorc, balEth, balLp, allowance>>
  /\ UNCHANGED <<peer, cmd, args, loc, pairAddr, decReply, pool, clock>>

lp_remove_eth ==
  \/ RmTo
  \/ RmMins
  \/ RmDeadline
  \/ RmWeth
  \/ RmFactory
  \/ RmPair
  \/ RmOwner
  \/ RmLpBal
  \/ RmWant
  \/ RmSend

\* ------------------------------------------------------------------------
\* lp:set-pair-on-torc
\* ------------------------------------------------------------------------
\* fct = router_factory(RPC_URL, ROUTER_ADDR)
SpFactory ==
  /\ pc = "sp_factory"
  /\ \E oc \in RunOutcomes :
       IF oc = "ok"
       THEN /\ loc' = [loc EXCEPT !.fct = "FACTORY"]
            /\ continue(After("sp_factory"))
       ELSE /\ run_fails(oc)
            /\ UNCHANGED loc
  /\ UNCHANGED <<peer, cmd, args, txlog, chainVars>>

\* pair = get_pair(...); if pair.lower() == "0x00...00": die(...)
SpPair ==
  /\ pc = "sp_pair"
  /\ \E oc \in RunOutcomes :
       IF oc = "ok"
       THEN IF pairAddr = "ZERO"
            THEN die("NoPair") /\ UNCHANGED loc
            ELSE /\ loc' = [loc EXCEPT !.pair = pairAddr]
                 /\ continue(After("sp_pair"))
       ELSE /\ run_fails(oc)
            /\ UNCHANGED loc
  /\ UNCHANGED <<peer, cmd, args, txlog, chainVars>>

\* cast_send(RPC_URL, PK, TORC, "setPairAddress(address)", pair)
SpSend ==
  /\ pc = "sp_send"
  /\ \E oc \in RunOutcomes :
       CASE oc = "ok" ->
              /\ txlog' = Append(txlog, Tx("TORC", "setPairAddress", <<loc.pair>>, NoValue, TRUE))
              /\ pc' = After(pc)
              /\ status' = "ok"
              /\ UNCHANGED err
         [] oc = "exit" ->
              /\ txlog' = Append(txlog, Tx("TORC", "setPairAddress", <<loc.pair>>, NoValue, FALSE))
              /\ run_fails(oc)
         [] OTHER ->
              /\ run_fails(oc)
              /\ UNCHANGED txlog
  /\ UNCHANGED <<peer, cmd, args, loc, chainVars>>

lp_set_pair_on_torc ==
  /\ cmd = "lp:set-pair-on-torc"
  /\ \/ SpFactory
     \/ SpPair
     \/ SpSend

\* ------------------------------------------------------------------------
\* lp:quote and quote_torc_price_per_eth
\* ------------------------------------------------------------------------
\* the exponent notation cast prints after a number, as "[1.7e9]"
Annotation(n) ==
  Bind(DecValue(DecOfInt(n)).digits, LAMBDA m :
    <<"[">> \o DigitStr(<<m[1]>>) \o
    (IF Len(m) > 1 THEN <<".">> \o DigitStr(Tail(m)) ELSE <<>>) \o
    <<"e">> \o IntStr(IntOf(Len(n.mag) - 1)) \o <<"]">>)

\* a line of cast's output for a number: numbers from 10000 on are annotated
CastNumber(n, annotated) ==
  IF annotated /\ Len(n.mag) >= 5
  THEN IntStr(n) \o <<" ">> \o Annotation(n) ELSE IntStr(n)

\* what cast call prints for getReserves()(uint112,uint112,uint32): three
\* lines, annotated or not by the version of cast; or a reply cut short
GetReservesOutput ==
  CASE pool.style \in {"annotated", "plain"} ->
         CastNumber(pool.r0, pool.style = "annotated") \o <<"\n">> \o
         CastNumber(pool.r1, pool.style = "annotated") \o <<"\n">> \o
         CastNumber(pool.ts, pool.style = "annotated")
    [] pool.style = "two" -> IntStr(pool.r0) \o <<"\n">> \o IntStr(pool.r1)
    [] pool.style = "one" -> IntStr(pool.r0)
    [] OTHER -> <<>>

\* a failure of run() inside the try of the handler: die() in run ends the
\* program, an exception is caught and its text passed to die()
quote_fails(oc) ==
  IF oc = "exit" THEN die("CommandFailed") ELSE die("OSError")

\* other = tokenB or router_weth(...) with tokenB = args.tokenB or
\* DEFAULT_WETH, which is not empty; fct = router_factory(rpc, router)
QFactory ==
  /\ pc = "q_factory"
  /\ \E oc \in RunOutcomes :
       IF oc = "ok"
       THEN /\ loc' = [loc EXCEPT !.fct = "FACTORY"]
            /\ continue(After("q_factory"))
       ELSE /\ quote_fails(oc)
            /\ UNCHANGED loc
  /\ UNCHANGED <<peer, cmd, args, txlog, chainVars>>

\* (a variant that takes an empty reply for a pair)
pair_missing_zero_only(pair_addr) == pair_addr = "ZERO"

\* not pair_addr or pair_addr.lower() == "0x00...00"
pair_missing(pair_addr) == pair_addr = "" \/ pair_addr = "ZERO"

\* pair_addr = get_pair(...); if the pair is missing: raise
QPair ==
  /\ pc = "q_pair"
  /\ \E oc \in RunOutcomes :
       IF oc = "ok"
       THEN IF pair_missing(pairAddr)
            THEN die("PairNotFound") /\ UNCHANGED loc
            ELSE /\ loc' = [loc EXCEPT !.pair = pairAddr]
                 /\ continue(After("q_pair"))
       ELSE /\ quote_fails(oc)
            /\ UNCHANGED loc
  /\ UNCHANGED <<peer, cmd, args, txlog, chainVars>>

\* reserves_raw = run(cmd) ... reserve0 = parse_bigint(parts[0]);
\* reserve1 = parse_bigint(parts[2])
ParseReserves(reserves_raw) ==
  Bind(PySplit(reserves_raw), LAMBDA parts :
    CASE reserves_raw = <<>> -> Exc("ReservesEmpty")
      [] reserves_raw # <<>> /\ Len(parts) < 2 -> Exc("ReservesUnexpected")
      [] Len(parts) >= 2 /\ IsExc(parse_bigint(parts[1])) -> parse_bigint(parts[1])
      [] Len(parts) = 2 /\ ~IsExc(parse_bigint(parts[1])) -> Exc("IndexError")
      [] OTHER ->
           Bind(parse_bigint(parts[3]), LAMBDA r1 :
             IF IsExc(r1) THEN r1
             ELSE [reserve0 |-> parse_bigint(parts[1]), reserve1 |-> r1]))

QReserves ==
  /\ pc = "q_reserves"
  /\ \E oc \in RunOutcomes :
       IF oc = "ok"
       THEN LET r == ParseReserves(Strip(GetReservesOutput))
            IN  IF IsExc(r)
                THEN die(r.exc) /\ UNCHANGED loc
                ELSE /\ loc' = [loc EXCEPT !.reserve0 = r.reserve0,
                                           !.reserve1 = r.reserve1]
                     /\ continue(After("q_reserves"))
       ELSE /\ quote_fails(oc)
            /\ UNCHANGED loc
  /\ UNCHANGED <<peer, cmd, args, txlog, chainVars>>

\* t0 = pair_token0(rpc, pair_addr)
QToken0 ==
  /\ pc = "q_token0"
  /\ \E oc \in RunOutcomes :
       IF oc = "ok"
       THEN /\ loc' = [loc EXCEPT !.t0 = FirstToken(pool.token0)]
            /\ continue(After("q_token0"))
       ELSE /\ quote_fails(oc)
            /\ UNCHANGED loc
  /\ UNCHANGED <<peer, cmd, args, txlog, chainVars>>

\* dec_torc = token_decimals(rpc, torc)
QDecTorc ==
  /\ pc = "q_dec_torc"
  /\ \E oc \in RunOutcomes :
       LET d == token_decimals(oc, decReply)
       IN  IF IsExc(d)
           THEN die("CommandFailed") /\ UNCHANGED loc
           ELSE /\ loc' = [loc EXCEPT !.dec_torc = d]
                /\ continue(After("q_dec_torc"))
  /\ UNCHANGED <<peer, cmd, args, txlog, chainVars>>

\* dec_other = token_decimals(rpc, other); the other token prints "18"
QDecOther ==
  /\ pc = "q_dec_other"
  /\ \E oc \in RunOutcomes :
       LET d == token_decimals(oc, <<"1", "8">>)
       IN  IF IsExc(d)
           THEN die("CommandFailed") /\ UNCHANGED loc
           ELSE /\ loc' = [loc EXCEPT !.dec_other = d]
                /\ continue(After("q_dec_other"))
  /\ UNCHANGED <<peer, cmd, args, txlog, chainVars>>

\* t0.lower() == torc.lower()
TorcIsToken0 == LowerStr(loc.t0) = LowerStr(args.torc)

\* (a variant that checks the TORC reserve only)
zero_reserves_torc_only(reserve_torc, reserve_eth) == reserve_torc = Zero

\* reserve_torc == 0 or reserve_eth == 0
zero_reserves(reserve_torc, reserve_eth) ==
  reserve_torc = Zero \/ reserve_eth = Zero

\* price = (Decimal(reserve_eth) / (Decimal(10) ** dec_other)) /
\*         (Decimal(reserve_torc) / (Decimal(10) ** dec_torc))
quote_price(reserve_torc, dec_torc, reserve_eth, dec_other) ==
  DecDiv(DecHuman(reserve_eth, SmallInt(dec_other)),
         DecHuman(reserve_torc, SmallInt(dec_torc)))

\* the reserves by token, the check for a zero reserve, and the price
QPrice ==
  /\ pc = "q_price"
  /\ LET reserve_torc == IF TorcIsToken0 THEN loc.reserve0 ELSE loc.reserve1
         reserve_eth == IF TorcIsToken0 THEN loc.reserve1 ELSE loc.reserve0
     IN  IF zero_reserves(reserve_torc, reserve_eth)
         THEN /\ die("ZeroReserves")
              /\ loc' = [loc EXCEPT !.reserve_torc = reserve_torc,
                                    !.reserve_eth = reserve_eth]
         ELSE /\ loc' = [loc EXCEPT !.reserve_torc = reserve_torc,
                                    !.reserve_eth = reserve_eth,
                                    !.price = quote_price(reserve_torc, loc.dec_torc,
                                                          reserve_eth, loc.dec_other)]
              /\ continue(After("q_price"))
  /\ UNCHANGED <<peer, cmd, args, txlog, chainVars>>

\* torc_decimals = token_decimals(RPC_URL, TORC)
QDecimals ==
  /\ pc = "q_decimals"
  /\ \E oc \in RunOutcomes :
       LET d == token_decimals(oc, decReply)
       IN  IF IsExc(d)
           THEN die("CommandFailed") /\ UNCHANGED loc
           ELSE /\ loc' = [loc EXCEPT !.torc_decimals = d]
                /\ continue(After("q_decimals"))
  /\ UNCHANGED <<peer, cmd, args, txlog, chainVars>>

\* say(... int_commas(reserve / 10 ** decimals) ...); say(... dec_to_fixed_commas(price) ...)
QSay ==
  /\ pc = "q_say"
  /\ LET p == dec_to_fixed_commas(loc.price)
     IN  IF IsExc(p)
         THEN /\ raise(p.exc)
              /\ UNCHANGED loc
         ELSE /\ loc' = [loc EXCEPT !.shown =
                           <<int_commas(DecToInt(DecHuman(loc.reserve_torc,
                                                          SmallInt(loc.torc_decimals)))),
                             int_commas(DecToInt(DecHuman(loc.reserve_eth, 18))),
                             p.str>>]
              /\ pc' = After(pc)
              /\ status' = "ok"
              /\ UNCHANGED err
  /\ UNCHANGED <<peer, cmd, args, txlog, chainVars>>

lp_quote ==
  /\ cmd = "lp:quote"
  /\ \/ QFactory
     \/ QPair
     \/ QReserves
     \/ QToken0
     \/ QDecTorc
     \/ QDecOther
     \/ QPrice
     \/ QDecimals
     \/ QSay

\* ------------------------------------------------------------------------
\* roles:grant, roles:revoke, roles:renounce, roles:check
\* ------------------------------------------------------------------------
\* role_hash = run(["cast", "keccak", args.role_name]).split()[0], or zero
\* for DEFAULT_ADMIN_ROLE
RoHash ==
  /\ pc = "ro_hash"
  /\ \E oc \in RunOutcomes :
       IF oc = "ok"
       THEN /\ loc' = [loc EXCEPT !.role_hash =
                         IF args.role_name = "DEFAULT_ADMIN_ROLE" THEN "ZEROHASH"
                         ELSE "HASH"]
            /\ continue(After("ro_hash"))
       ELSE /\ run_fails(oc)
            /\ UNCHANGED loc
  /\ UNCHANGED <<peer, cmd, args, txlog, chainVars>>

\* (a variant whose every roles command sends)
role_sends_always(c) == TRUE

\* the branches of the roles handler that call cast_send
role_sends(c) == c \in {"roles:grant", "roles:revoke", "roles:renounce"}

RoleSig ==
  CASE cmd = "roles:grant" -> "grantRole"
    [] cmd = "roles:revoke" -> "revokeRole"
    [] OTHER -> "renounceRole"

\* cast_send(RPC_URL, PK, TORC, "grantRole(bytes32,address)", role_hash, args.account)
RoSend ==
  /\ pc = "ro_act"
  /\ role_sends(cmd)
  /\ \E oc \in RunOutcomes :
       CASE oc = "ok" ->
              /\ txlog' = Append(txlog, Tx("TORC", RoleSig, <<loc.role_hash, args.account>>, NoValue, TRUE))
              /\ pc' = After(pc)
              /\ status' = "ok"
              /\ UNCHANGED err
         [] oc = "exit" ->
              /\ txlog' = Append(txlog, Tx("TORC", RoleSig, <<loc.role_hash, args.account>>, NoValue, FALSE))
              /\ run_fails(oc)
         [] OTHER ->
              /\ run_fails(oc)
              /\ UNCHANGED txlog
  /\ UNCHANGED <<peer, cmd, args, loc, chainVars>>

\* has = cast_call(RPC_URL, TORC, "hasRole(bytes32,address)(bool)", role_hash, args.account)
RoCheck ==
  /\ pc = "ro_act"
  /\ cmd = "roles:check"
  /\ \E oc \in RunOutcomes :
       IF oc = "ok"
       THEN /\ \E has \in {"true", "false"} : loc' = [loc EXCEPT !.has = has]
            /\ pc' = After(pc)
            /\ status' = "ok"
            /\ UNCHANGED err
       ELSE /\ run_fails(oc)
            /\ UNCHANGED loc
  /\ UNCHANGED <<peer, cmd, args, txlog, chainVars>>

roles ==
  /\ cmd \in RolesCmds
  /\ \/ RoHash
     \/ RoSend
     \/ RoCheck

\* ------------------------------------------------------------------------
\* lp:router-info and lp:get-pair
\* ------------------------------------------------------------------------
\* fct = router_factory(RPC_URL, ROUTER_ADDR); w = router_weth(RPC_URL, ROUTER_ADDR)
lp_router_info ==
  /\ cmd = "lp:router-info"
  /\ pc \in {"ri_factory", "ri_weth"}
  /\ \E oc \in RunOutcomes :
       IF oc = "ok"
       THEN /\ loc' = IF pc = "ri_factory" THEN [loc EXCEPT !.fct = "FACTORY"]
                      ELSE [loc EXCEPT !.weth = "WETH"]
            /\ pc' = After(pc)
            /\ status' = IF pc = "ri_weth" THEN "ok" ELSE status
            /\ UNCHANGED err
       ELSE /\ run_fails(oc)
            /\ UNCHANGED loc
  /\ UNCHANGED <<peer, cmd, args, txlog, chainVars>>

\* fct = router_factory(RPC_URL, ROUTER_ADDR); pair = get_pair(RPC_URL, fct, TORC, tokenB)
lp_get_pair ==
  /\ cmd = "lp:get-pair"
  /\ pc \in {"gp_factory", "gp_pair"}
  /\ \E oc \in RunOutcomes :
       IF oc = "ok"
       THEN /\ loc' = IF pc = "gp_factory" THEN [loc EXCEPT !.fct = "FACTORY"]
                      ELSE [loc EXCEPT !.pair = pairAddr]
            /\ pc' = After(pc)
            /\ status' = IF pc = "gp_pair" THEN "ok" ELSE status
            /\ UNCHANGED err
       ELSE /\ run_fails(oc)
            /\ UNCHANGED loc
  /\ UNCHANGED <<peer, cmd, args, txlog, chainVars>>

\* ------------------------------------------------------------------------
\* fees:process
\* ------------------------------------------------------------------------
\* json.loads of the path arguments the model draws
json_loads(s) ==
  CASE s = "[]" -> [list |-> <<>>]
    [] s = "[\"WETH\",\"TORC\"]" -> [list |-> <<"WETH", "TORC">>]
    [] OTHER -> Exc("JSONDecodeError")

\* json.dumps of a list of strings: the items quoted and joined by ", "
RECURSIVE json_items(_)
json_items(l) ==
  IF Len(l) = 0 THEN ""
  ELSE IF Len(l) = 1 THEN "\"" \o l[1] \o "\""
  ELSE "\"" \o l[1] \o "\", " \o json_items(Tail(l))

json_dumps(v) == "[" \o json_items(v.list) \o "]"

\* amountIn = int(args.amountIn); amountOutMin = int(args.amountOutMin)
FpAmounts ==
  /\ pc = "fp_amounts"
  /\ LET ain == PyInt(args.amountIn)
         aout == PyInt(args.amountOutMin)
     IN  CASE IsExc(ain) -> raise(ain.exc) /\ UNCHANGED loc
           [] ~IsExc(ain) /\ IsExc(aout) -> raise(aout.exc) /\ UNCHANGED loc
           [] OTHER ->
                /\ loc' = [loc EXCEPT !.amount_in = ain, !.amount_out_min = aout]
                /\ continue(After("fp_amounts"))
  /\ UNCHANGED <<peer, cmd, args, txlog, chainVars>>

\* path = json_arg(args.path_json)
FpPath ==
  /\ pc = "fp_path"
  /\ LET v == json_loads(args.path_json)
     IN  IF IsExc(v)
         THEN die("InvalidJSON") /\ UNCHANGED loc
         ELSE /\ loc' = [loc EXCEPT !.path = v]
              /\ continue(After("fp_path"))
  /\ UNCHANGED <<peer, cmd, args, txlog, chainVars>>

FpDeadline ==
  /\ pc = "fp_deadline"
  /\ Deadline(After("fp_deadline"))
  /\ UNCHANGED <<peer, cmd, args, txlog, chainVars>>

\* the arguments of processFees(uint256,uint256,address[],uint256)
ProcessFeesArgs ==
  <<IntStr(loc.amount_in), IntStr(loc.amount_out_min), json_dumps(loc.path),
    IntStr(loc.deadline)>>

\* cast_send(RPC_URL, PK, TORC, "processFees(...)", ...)
FpSend ==
  /\ pc = "fp_send"
  /\ \E oc \in RunOutcomes :
       CASE oc = "ok" ->
              /\ txlog' = Append(txlog, Tx("TORC", "processFees", ProcessFeesArgs, NoValue, TRUE))
              /\ pc' = After(pc)
              /\ status' = "ok"
              /\ UNCHANGED err
         [] oc = "exit" ->
              /\ txlog' = Append(txlog, Tx("TORC", "processFees", ProcessFeesArgs, NoValue, FALSE))
              /\ run_fails(oc)
         [] OTHER ->
              /\ run_fails(oc)
              /\ UNCHANGED txlog
  /\ UNCHANGED <<peer, cmd, args, loc, chainVars>>

fees_process ==
  /\ cmd = "fees:process"
  /\ \/ FpAmounts
     \/ FpPath
     \/ FpDeadline
     \/ FpSend

\* ------------------------------------------------------------------------
\* Command lines and chain states
\* ------------------------------------------------------------------------
\* the largest balance and allowance, in units of 50 tokens and half an ETH
MaxUnits == 1

S_50 == <<"5", "0">>

S_5wei == <<"5", "w", "e", "i">>

S_7wei == <<"7", "w", "e", "i">>

S_half == <<"0", ".", "5">>

S_1 == <<"1">>

S_bad == <<"1", ",", "5">>

S_2000 == <<"2", "0", "0", "0">>

S_18 == <<"1", "8">>

S_hex6 == <<"0", "x", "6">>

S_neg5wei == <<"-", "5", "w", "e", "i">>

S_neg7wei == <<"-", "7", "w", "e", "i">>

\* 1 - 10^-n: "0." and n nines
Nines(n) == <<"0", ".">> \o Repeat("9", n)

AddArgs ==
  [amountTokenDesired : {S_50, S_7wei, S_neg7wei, S_bad},
   amountETH : {S_half, S_bad},
   to : {"", "RECV"},
   amountTokenMin : {S_50, S_5wei, S_bad},
   amountETHMin : {S_half, S_bad},
   deadline : {<<>>, S_2000, S_bad}]

RemoveArgs ==
  [liquidity : {All, S_1, S_5wei, S_neg5wei, Nines(prec + 1), S_bad},
   to : {"", "RECV"},
   amountTokenMinWei : {S_50, S_half},
   amountETHMinWei : {S_0, S_5wei, S_bad},
   deadline : {<<>>, S_2000, S_bad}]

\* balances of TORC and of the pair token: multiples of 50 * 10^18
TokenAmounts == {Scaled(50 * k, 18) : k \in 0..MaxUnits}

\* balances of ETH: multiples of 0.5 * 10^18
EthAmounts == {Scaled(5 * k, 17) : k \in 0..MaxUnits}

DecimalsReplies == {S_18, S_hex6, <<>>, S_bad}

InitInvocation(c, a, first) ==
  /\ cmd = c
  /\ args = a
  /\ pc = first
  /\ status = "running"
  /\ err = ""
  /\ loc = NoLocals
  /\ txlog = <<>>
  /\ clock = IntOf(1000)
  /\ peer = None

InitAdd ==
  /\ \E a \in AddArgs : InitInvocation("lp:add-eth", a, "add_to")
  /\ balTorc \in TokenAmounts
  /\ balEth \in EthAmounts
  /\ balLp = Zero
  /\ allowance \in [{"TORC"} -> {Zero, IntOf(7), Scaled(50, 18)}]
  /\ pairAddr = "PAIR"
  /\ decReply \in DecimalsReplies
  /\ pool = NoPool

InitRemove ==
  /\ \E c \in RemoveCmds :
       \E a \in RemoveArgs : InitInvocation(c, a, "rm_to")
  /\ balTorc = Zero
  /\ balEth = Scaled(1, 18)
  /\ balLp \in {Zero, IntOf(5), Scaled(1, 18)}
  /\ pairAddr \in {"PAIR", "ZERO", ""}
  /\ allowance \in [{"PAIR"} -> {Zero, Scaled(1, 18)}]
  /\ decReply = S_18
  /\ pool = NoPool

\* the command lines of fees:process
FeesArgs ==
  [amountIn : {S_0, S_50, S_bad},
   amountOutMin : {S_0, S_bad},
   path_json : {"[]", "[\"WETH\",\"TORC\"]", "[WETH"},
   deadline : {<<>>, S_2000, S_bad}]

InitFees ==
  /\ \E a \in FeesArgs : InitInvocation("fees:process", a, "fp_amounts")
  /\ balTorc = Zero
  /\ balEth = Scaled(1, 18)
  /\ balLp = Zero
  /\ allowance = [t \in {"TORC"} |-> Zero]
  /\ pairAddr = "PAIR"
  /\ decReply = S_18
  /\ pool = NoPool

InitSetPair ==
  /\ InitInvocation("lp:set-pair-on-torc", [tokenB |-> ""], "sp_factory")
  /\ balTorc = Zero
  /\ balEth = Scaled(1, 18)
  /\ balLp = Zero
  /\ allowance = [t \in {"TORC"} |-> Zero]
  /\ pairAddr \in {"PAIR", "ZERO", ""}
  /\ decReply = S_18
  /\ pool = NoPool

\* the command lines of the roles commands, lp:router-info and lp:get-pair
QueryInvocations ==
  {[cmd |-> c, args |-> [role_name |-> r, account |-> "ACCOUNT"], first |-> "ro_hash"] :
     c \in RolesCmds, r \in {"MINTER_ROLE", "DEFAULT_ADMIN_ROLE"}}
  \cup {[cmd |-> "lp:router-info", args |-> [tokenB |-> ""], first |-> "ri_factory"],
        [cmd |-> "lp:get-pair", args |-> [tokenB |-> ""], first |-> "gp_factory"]}

InitQuery ==
  /\ \E q \in QueryInvocations : InitInvocation(q.cmd, q.args, q.first)
  /\ balTorc \in TokenAmounts
  /\ balEth = Scaled(1, 18)
  /\ balLp = Zero
  /\ allowance \in [{"TORC"} -> {Zero, IntOf(7)}]
  /\ pairAddr \in {"PAIR", "ZERO", ""}
  /\ decReply = S_18
  /\ pool = NoPool

\* the address of TORC as the user types it
TorcAddr == <<"0", "x", "A", "b">>

\* the reserves of a pair, reserve0 first
PoolReserves ==
  {<<Scaled(2, 24), Scaled(1, 19)>>, <<Scaled(1, 19), Scaled(2, 24)>>,
   <<Scaled(3, 18), Scaled(1, 18)>>, <<Zero, Scaled(1, 19)>>,
   <<Scaled(2, 24), Zero>>}

\* the pairs quoted: their reserves, the time of their last block, token0 as
\* cast prints it (TORC in either case of the letters, or the other token),
\* and the shape of the getReserves reply
Pools ==
  {[r0 |-> r[1], r1 |-> r[2], ts |-> Scaled(17, 8), token0 |-> t, style |-> st] :
     r \in PoolReserves,
     t \in {TorcAddr, <<"0", "x", "a", "B">>, <<"0", "x", "C", "d">>},
     st \in {"annotated", "plain", "two", "one", "empty"}}

InitQuote ==
  /\ InitInvocation("lp:quote", [tokenB |-> "", torc |-> TorcAddr], "q_factory")
  /\ balTorc = Zero
  /\ balEth = Scaled(1, 18)
  /\ balLp = Zero
  /\ allowance = [t \in {"TORC"} |-> Zero]
  /\ pairAddr \in {"PAIR", "ZERO", ""}
  /\ decReply \in {S_18, S_hex6}
  /\ pool \in Pools

Init ==
  InitAdd \/ InitRemove \/ InitFees \/ InitSetPair \/ InitQuote \/ InitQuery

Next ==
  \/ lp_add_eth
  \/ lp_remove_eth
  \/ approve_exact_if_needed
  \/ fees_process
  \/ lp_set_pair_on_torc
  \/ lp_quote
  \/ roles
  \/ lp_router_info
  \/ lp_get_pair

Spec == Init /\ [][Next]_vars

\* ------------------------------------------------------------------------
\* The two remove entry points run one after the other on the same command
\* line and the same chain state
\* ------------------------------------------------------------------------
TwinArgs ==
  [liquidity : {All, S_1, S_5wei, S_bad},
   to : {""},
   amountTokenMinWei : {S_50},
   amountETHMinWei : {S_0, S_bad},
   deadline : {<<>>, S_2000},
   first : {None},
   chain0 : {None}]

\* what an invocation has left behind when it ends
Outcome ==
  [cmd |-> cmd, status |-> status, err |-> err, loc |-> loc, txlog |-> txlog]

InitTwin ==
  /\ \E c \in RemoveCmds : \E a \in TwinArgs :
       \E lp \in {Zero, IntOf(5), Scaled(1, 18)} :
         \E al \in [{"PAIR"} -> {Zero, Scaled(1, 18)}] :
           /\ balLp = lp
           /\ allowance = al
           /\ InitInvocation(c, [a EXCEPT !.chain0 = [balLp |-> lp, allowance |-> al]],
                             "rm_to")
  /\ balTorc = Zero
  /\ balEth = Scaled(1, 18)
  /\ pairAddr \in {"PAIR", "ZERO"}
  /\ decReply = S_18
  /\ pool = NoPool

\* the first invocation has ended: the other entry point is invoked with the
\* same command line, the chain being as the first one found it
TwinRestart ==
  /\ pc = "done"
  /\ args.first = None
  /\ args' = [args EXCEPT !.first = Outcome]
  /\ cmd' = CHOOSE c \in RemoveCmds : c # cmd
  /\ pc' = "rm_to"
  /\ status' = "running"
  /\ err' = ""
  /\ loc' = NoLocals
  /\ txlog' = <<>>
  /\ balLp' = args.chain0.balLp
  /\ allowance' = args.chain0.allowance
  /\ balTorc' = Zero
  /\ balEth' = Scaled(1, 18)
  /\ UNCHANGED <<pairAddr, decReply, pool, clock, peer>>

NextTwin ==
  \/ lp_remove_eth
  \/ approve_exact_if_needed
  \/ TwinRestart

SpecTwin == InitTwin /\ [][NextTwin]_vars

\* ------------------------------------------------------------------------
\* approve_exact_if_needed called several times in a row, nothing else
\* touching the allowance in between
\* ------------------------------------------------------------------------
\* the number of calls in a row
MaxCalls == 2

EnsureLocals ==
  [owner |-> "", ap_current |-> None, ea_i |-> 0, ea_first |-> 0, ea_done |-> <<>>]

\* approve_exact_if_needed(RPC_URL, PK, token, ROUTER_ADDR, amounts[i])
EnsureCall ==
  /\ pc = "ea_call"
  /\ loc' = [loc EXCEPT !.ea_i = @ + 1, !.ea_first = Len(txlog), !.ap_current = None]
  /\ continue(After("ea_call"))
  /\ UNCHANGED <<peer, cmd, args, txlog, chainVars>>

\* the call has returned: note what it was asked and which transactions it sent
EnsureReturn ==
  /\ pc = "ea_return"
  /\ loc' = [loc EXCEPT !.ea_done =
               Append(@, [amount |-> ApproveTarget.amount, current |-> loc.ap_current,
                          first |-> loc.ea_first, last |-> Len(txlog)])]
  /\ IF loc.ea_i < Len(args.amounts)
     THEN continue("ea_call")
     ELSE /\ pc' = After("ea_return")
          /\ status' = "ok"
          /\ UNCHANGED err
  /\ UNCHANGED <<peer, cmd, args, txlog, chainVars>>

EnsureAmounts == {IntOf(7), Scaled(50, 18), Scaled(100, 18)}

InitEnsure ==
  /\ cmd = "ensure_allowance"
  /\ args \in [token : {"TORC"}, amounts : [1..MaxCalls -> EnsureAmounts]]
  /\ pc = "ea_call"
  /\ status = "running"
  /\ err = ""
  /\ loc = EnsureLocals
  /\ txlog = <<>>
  /\ clock = IntOf(1000)
  /\ peer = None
  /\ balTorc = Zero
  /\ balEth = Zero
  /\ balLp = Zero
  /\ allowance \in [{"TORC"} -> {Zero, IntOf(7), Scaled(50, 18)}]
  /\ pairAddr = "PAIR"
  /\ decReply = S_18
  /\ pool = NoPool

NextEnsure ==
  \/ EnsureCall
  \/ EnsureReturn
  \/ approve_exact_if_needed

SpecEnsure == InitEnsure /\ [][NextEnsure]_vars

\* ------------------------------------------------------------------------
\* Two lp:add-eth invocations started from the same wallet at the same time.
\* Each is its own process with its own command line, position and locals;
\* they share the chain.  One statement of a handler is one subprocess (one RPC
\* read or one transaction), and the chain takes them in some order.
\* ------------------------------------------------------------------------
\* what an invocation holds of its own
Context ==
  [args |-> args, pc |-> pc, status |-> status, err |-> err, loc |-> loc]

\* the operating system runs the other invocation
Switch ==
  /\ peer # None
  /\ peer.status = "running"
  /\ args' = peer.args
  /\ pc' = peer.pc
  /\ status' = peer.status
  /\ err' = peer.err
  /\ loc' = peer.loc
  /\ peer' = Context
  /\ UNCHANGED <<cmd, txlog, chainVars>>

\* the command lines of the two invocations: 50 TORC or 7 wei of TORC, with
\* 0.5 ETH, to the wallet or to a recipient
RaceArgs ==
  [amountTokenDesired : {S_50, S_7wei},
   amountETH : {S_half},
   to : {"", "RECV"},
   amountTokenMin : {S_5wei},
   amountETHMin : {S_half},
   deadline : {<<>>}]

InitRace ==
  /\ cmd = "lp:add-eth"
  /\ args \in {a \in RaceArgs : a.to = ""}
  /\ pc = "add_to"
  /\ status = "running"
  /\ err = ""
  /\ loc = NoLocals
  /\ txlog = <<>>
  /\ clock = IntOf(1000)
  /\ \E b \in RaceArgs :
       /\ b.to = "RECV"
       /\ peer = [args |-> b, pc |-> "add_to", status |-> "running", err |-> "",
                  loc |-> NoLocals]
  /\ balTorc \in {Scaled(50, 18), Scaled(100, 18)}
  /\ balEth = Scaled(1, 18)
  /\ balLp = Zero
  /\ allowance \in [{"TORC"} -> {Zero, Scaled(50, 18)}]
  /\ pairAddr = "PAIR"
  /\ decReply = S_18
  /\ pool = NoPool

NextRace ==
  \/ lp_add_eth
  \/ approve_exact_if_needed
  \/ Switch

SpecRace == InitRace /\ [][NextRace]_vars

\* ------------------------------------------------------------------------
\* The conversions applied to amount strings
\* ------------------------------------------------------------------------
\* the longest amount string that is tried in every spelling
MaxConvLen == 3

ConvAlphabet == {"0", "1", "9", ".", "e", "-", "x", "_"}

\* 10^-18, 1 + 10^-18, and 1 + 9 * 10^-19
S_1e_18 == <<"0", ".">> \o Repeat("0", 17) \o <<"1">>

S_1_plus_1e_18 == <<"1", ".">> \o Repeat("0", 17) \o <<"1">>

S_1_plus_9e_19 == <<"1", ".">> \o Repeat("0", 18) \o <<"9">>

S_0x10 == <<"0", "x", "1", "0">>

ConvBodies ==
  UNION {[1..n -> ConvAlphabet] : n \in 0..MaxConvLen}
    \cup {S_1e_18, S_1_plus_1e_18, S_1_plus_9e_19, S_0x10, S_50,
          Nines(prec), Nines(prec + 1)}

ConvInputs == ConvBodies \cup {b \o Wei : b \in ConvBodies}

ConvDecimals == {0, 6, 18}

InitConv ==
  /\ cmd = "convert"
  /\ args \in [human : ConvInputs, decimals : ConvDecimals]
  /\ pc = "conv"
  /\ status = "running"
  /\ err = ""
  /\ loc = [result |-> None, result18 |-> None]
  /\ txlog = <<>>
  /\ clock = IntOf(1000)
  /\ peer = None
  /\ balTorc = Zero
  /\ balEth = Zero
  /\ balLp = Zero
  /\ allowance = [t \in {"TORC"} |-> Zero]
  /\ pairAddr = "PAIR"
  /\ decReply = S_18
  /\ pool = NoPool

\* to_wei_with_decimals(human, decimals) and to_wei_18(human)
Convert ==
  /\ pc = "conv"
  /\ loc' = [result |-> to_wei_with_decimals(args.human, args.decimals),
             result18 |-> to_wei_18(args.human)]
  /\ pc' = "done"
  /\ status' = "ok"
  /\ UNCHANGED <<peer, cmd, args, err, txlog, chainVars>>

NextConv == Convert

SpecConv == InitConv /\ [][NextConv]_vars

\* ------------------------------------------------------------------------
\* token_decimals on the replies of a decimals() read
\* ------------------------------------------------------------------------
\* the longest reply
MaxReplyLen == 3

ReplyAlphabet == {"0", "1", "3", "x", "-", " "}

\* what cast prints: every string over the alphabet up to the longest reply
DecimalsOutputs ==
  UNION {[1..n -> ReplyAlphabet] : n \in 0..MaxReplyLen}

InitDecimals ==
  /\ cmd = "token_decimals"
  /\ args = [token |-> "TORC"]
  /\ pc = "td_call"
  /\ status = "running"
  /\ err = ""
  /\ loc = [result |-> None]
  /\ txlog = <<>>
  /\ clock = IntOf(1000)
  /\ peer = None
  /\ balTorc = Zero
  /\ balEth = Zero
  /\ balLp = Zero
  /\ allowance = [t \in {"TORC"} |-> Zero]
  /\ pairAddr = "PAIR"
  /\ decReply \in DecimalsOutputs
  /\ pool = NoPool

\* d = token_decimals(RPC_URL, token)
DecimalsCall ==
  /\ pc = "td_call"
  /\ \E oc \in RunOutcomes :
       LET d == token_decimals(oc, decReply)
       IN  IF IsExc(d)
           THEN die("CommandFailed") /\ UNCHANGED loc
           ELSE /\ loc' = [result |-> d]
                /\ pc' = "done"
                /\ status' = "ok"
                /\ UNCHANGED err
  /\ UNCHANGED <<peer, cmd, args, txlog, chainVars>>

NextDecimals == DecimalsCall

SpecDecimals == InitDecimals /\ [][NextDecimals]_vars

\* ------------------------------------------------------------------------
\* Formatting of decimals
\* ------------------------------------------------------------------------
\* the longest coefficient and the largest exponent of the decimals formatted
MaxCoeffLen == 4

MaxExp == 3

\* coefficients without leading zeros
Coefficients ==
  {c \in UNION {[1..n -> {0, 1, 5}] : n \in 1..MaxCoeffLen} : Len(c) = 1 \/ c[1] # 0}

FormatInputs ==
  [k : {"fin"}, sign : BOOLEAN, digits : Coefficients, exp : (0 - MaxExp)..MaxExp]

InitFormat ==
  /\ cmd = "format"
  /\ args \in [d : FormatInputs]
  /\ pc = "fmt"
  /\ status = "running"
  /\ err = ""
  /\ loc = [fixed |-> <<>>, commas |-> <<>>]
  /\ txlog = <<>>
  /\ clock = IntOf(1000)
  /\ peer = None
  /\ balTorc = Zero
  /\ balEth = Zero
  /\ balLp = Zero
  /\ allowance = [t \in {"TORC"} |-> Zero]
  /\ pairAddr = "PAIR"
  /\ decReply = S_18
  /\ pool = NoPool

\* dec_to_fixed(d) and dec_to_fixed_commas(d)
Format ==
  /\ pc = "fmt"
  /\ LET c == dec_to_fixed_commas(args.d)
     IN  IF IsExc(c)
         THEN /\ raise(c.exc)
              /\ loc' = [loc EXCEPT !.fixed = dec_to_fixed(args.d)]
         ELSE /\ loc' = [fixed |-> dec_to_fixed(args.d), commas |-> c.str]
              /\ pc' = "done"
              /\ status' = "ok"
              /\ UNCHANGED err
  /\ UNCHANGED <<peer, cmd, args, txlog, chainVars>>

NextFormat == Format

SpecFormat == InitFormat /\ [][NextFormat]_vars

\* ------------------------------------------------------------------------
\* Properties
\* ------------------------------------------------------------------------
IsApprove(t) == t.sig = "approve"

IsAddLiquidity(t) == t.sig = "addLiquidityETH"

ApproveTx(token, amount, ok) ==
  Tx(token, "approve", <<"ROUTER", IntStr(amount)>>, NoValue, ok)

\* C1: every addLiquidityETH command line of lp:add-eth carries four amounts
\* that are the to_wei_with_decimals conversions of the four strings the user
\* typed, at the resolved token decimals for the two token amounts and at 18
\* for the two ETH amounts; a minimum typed as "50" reaches the call as
\* 50 * 10^decimals, never as 50
C1_SameScalingPath ==
  \A i \in 1..Len(txlog) :
    IsAddLiquidity(txlog[i]) =>
      Bind(<<txlog[i], SmallInt(loc.torc_decimals)>>, LAMBDA p :
        /\ p[1].args[2] = IntStr(to_wei_with_decimals(args.amountTokenDesired, p[2]))
        /\ p[1].args[3] = IntStr(to_wei_with_decimals(args.amountTokenMin, p[2]))
        /\ p[1].args[4] = IntStr(to_wei_with_decimals(args.amountETHMin, 18))
        /\ p[1].value = IntStr(to_wei_with_decimals(args.amountETH, 18))
        /\ (args.amountTokenMin = S_50 /\ p[2] = 18
              => p[1].args[3] = <<"5", "0">> \o Repeat("0", 18))
        /\ (args.amountTokenMin = S_50 /\ p[2] = 6
              => p[1].args[3] = <<"5", "0">> \o Repeat("0", 6))
        /\ (args.amountTokenMin = S_50 => p[1].args[3] # S_50)
        /\ (args.amountETHMin = S_half => p[1].args[4] = <<"5">> \o Repeat("0", 17)))

\* C1 witness: a successful addLiquidityETH whose token minimum was typed as
\* "50" for a token of 18 decimals
C1_Witness ==
  /\ cmd = "lp:add-eth"
  /\ status = "ok"
  /\ args.amountTokenMin = S_50
  /\ loc.torc_decimals = IntOf(18)
  /\ \E i \in 1..Len(txlog) : IsAddLiquidity(txlog[i]) /\ txlog[i].ok

\* the preflight of lp:add-eth has read both balances and one of them is
\* less than the amount desired
AddShortfall ==
  /\ cmd = "lp:add-eth"
  /\ loc.sup_eth_i # None
  /\ \/ IntLt(loc.sup_torc_i, loc.token_desired_wei)
     \/ IntLt(loc.sup_eth_i, loc.eth_wei)

\* C2: when the desired token amount exceeds the token balance, or the desired
\* ETH amount exceeds the ETH balance, lp:add-eth submits no transaction at
\* all, and once its guard has run it has died with an insufficient balance
\* error
C2_BalanceGuard ==
  AddShortfall =>
    /\ txlog = <<>>
    /\ pc \in {"add_weth", "add_guard", "done"}
    /\ (pc = "done" /\ loc.weth # ""
          => status = "died" /\ err \in {"InsufficientTORC", "InsufficientETH"})

\* C2 witness: the token balance suffices, the ETH balance does not, and the
\* invocation has died at the guard
C2_Witness ==
  /\ AddShortfall
  /\ ~IntLt(loc.sup_torc_i, loc.token_desired_wei)
  /\ pc = "done"
  /\ err = "InsufficientETH"

ParseErrors == {"ValueError", "InvalidOperation", "OverflowError"}

PreflightErrors ==
  {"InsufficientTORC", "InsufficientETH", "NoPair", "NothingToRemove", "InsufficientLP"}

\* C3: an invocation of lp:add-eth or of a remove handler that ends with a
\* parsing error or a preflight error has submitted no transaction
C3_ErrorsBeforeTransactions ==
  (pc = "done" /\ err \in ParseErrors \cup PreflightErrors) => txlog = <<>>

\* C3 witness: a remove invocation that has read the pair and the LP balance
\* and then fails on a malformed liquidity specifier
C3_Witness ==
  /\ cmd \in RemoveCmds
  /\ pc = "done"
  /\ loc.lp_bal # None
  /\ err = "InvalidOperation"
  /\ args.liquidity = S_bad

\* approve_exact_if_needed has returned to the handler
ApprovalReturned ==
  /\ cmd \in RemoveCmds \cup {"lp:add-eth"}
  /\ loc.ap_current # None
  /\ \/ pc \in {"add_send", "rm_send"}
     \/ \E i \in 1..Len(txlog) : ~IsApprove(txlog[i])

\* C4: an approval of a non-zero amount directly follows a completed approval
\* of 0 for the same token and spender, and a call of approve_exact_if_needed
\* that found the allowance below the amount and returned has submitted
\* exactly the two approvals, 0 and then the amount
C4_ResetThenExact ==
  /\ \A i \in 1..Len(txlog) :
       (IsApprove(txlog[i]) /\ txlog[i].args[2] # S_0) =>
         /\ i > 1
         /\ txlog[i - 1] = Tx(txlog[i].to, "approve", <<txlog[i].args[1], S_0>>, NoValue, TRUE)
  /\ (ApprovalReturned /\ IntLt(loc.ap_current, ApproveTarget.amount)) =>
       SelectSeq(txlog, IsApprove) =
         <<ApproveTx(ApproveTarget.token, Zero, TRUE),
           ApproveTx(ApproveTarget.token, ApproveTarget.amount, TRUE)>>

\* C4 witness: the allowance was 7, the amount 50 * 10^18, and both approvals
\* went through
C4_Witness ==
  /\ ApprovalReturned
  /\ loc.ap_current = IntOf(7)
  /\ Len(txlog) >= 2
  /\ txlog[2] = ApproveTx("TORC", Scaled(50, 18), TRUE)

\* C5: a call of approve_exact_if_needed that finds the allowance at or above
\* the amount submits nothing, and a call that follows a completed call for
\* the same amount submits nothing, so that the two submit at most one pair
C5_Idempotent ==
  /\ \A k \in 1..Len(loc.ea_done) :
       /\ IntLe(loc.ea_done[k].amount, loc.ea_done[k].current)
            => loc.ea_done[k].last = loc.ea_done[k].first
       /\ loc.ea_done[k].last - loc.ea_done[k].first \in {0, 2}
  /\ \A k \in 2..loc.ea_i :
       (args.amounts[k] = args.amounts[k - 1] /\ Len(loc.ea_done) >= k - 1) =>
         /\ Len(loc.ea_done) >= k => loc.ea_done[k].last = loc.ea_done[k].first
         /\ Len(loc.ea_done) = k - 1 => Len(txlog) = loc.ea_first
         /\ Len(loc.ea_done) >= k =>
              loc.ea_done[k].last - loc.ea_done[k - 1].first <= 2

\* C5 witness: two completed calls for the same amount, the first of which
\* submitted its pair of approvals
C5_Witness ==
  /\ Len(loc.ea_done) >= 2
  /\ args.amounts[1] = args.amounts[2]
  /\ loc.ea_done[1].last - loc.ea_done[1].first = 2
  /\ loc.ea_done[2].last = loc.ea_done[2].first

\* C6: a transaction that fails is the last one of its invocation, which has
\* died, and no command line is submitted twice
C6_FailureTerminal ==
  /\ \A i \in 1..Len(txlog) :
       ~txlog[i].ok => (i = Len(txlog) /\ pc = "done" /\ status = "died")
  /\ \A i \in 1..Len(txlog) : \A j \in 1..Len(txlog) :
       i < j => <<txlog[i].to, txlog[i].sig, txlog[i].args>>
                  # <<txlog[j].to, txlog[j].sig, txlog[j].args>>

\* C6 witness: the approval of 0 went through, the exact approval failed, and
\* nothing followed it
C6_Witness ==
  /\ Len(txlog) = 2
  /\ txlog[1].ok
  /\ IsApprove(txlog[2])
  /\ ~txlog[2].ok
  /\ pc = "done"

\* C7: an lp:add-eth invocation that reached the decimals() read goes on with
\* its decimals resolved, whatever the read did: it never ends with the
\* decimals unresolved, and an empty or malformed reply resolves to 18
C7_DecimalsNeverAbort ==
  (cmd = "lp:add-eth" /\ loc.to_addr # "") =>
    /\ pc = "done" => loc.torc_decimals # None
    /\ (loc.torc_decimals # None /\ decReply \in {<<>>, S_bad})
         => loc.torc_decimals = IntOf(18)

\* the integer part of x * 10^d, computed on all the digits of x
ExactTrunc(x, d) ==
  IF x.exp + d >= 0 THEN MkInt(x.sign, x.digits \o Zeros(x.exp + d))
  ELSE IF 0 - (x.exp + d) >= Len(x.digits) THEN Zero
       ELSE MkInt(x.sign, SubSeq(x.digits, 1, Len(x.digits) + x.exp + d))

\* C8: for a decimal string without the "wei" suffix, to_wei_with_decimals
\* is the exact value of the string times 10^decimals, truncated toward zero
C8_ExactTruncation ==
  (cmd = "convert" /\ pc = "done" /\ ~EndsWith(Strip(args.human), Wei)) =>
    Bind(PyDecimal(args.human), LAMBDA x :
      /\ (~IsExc(x) /\ x.k = "fin") => loc.result = ExactTrunc(x, args.decimals)
      /\ (args.human = S_1 /\ args.decimals = 18)
           => loc.result = MkInt(FALSE, <<1>> \o Zeros(18))
      /\ (args.human = S_1e_18 /\ args.decimals = 18)
           => loc.result = MkInt(FALSE, <<1>>)
      /\ (args.human = S_1_plus_1e_18 /\ args.decimals = 18)
           => loc.result = MkInt(FALSE, <<1>> \o Zeros(17) \o <<1>>)
      /\ (args.human = S_1_plus_9e_19 /\ args.decimals = 18)
           => loc.result = MkInt(FALSE, <<1>> \o Zeros(18)))

\* what follows "0x" is one or more hexadecimal digits
IsHexLiteral(body) ==
  /\ StartsWith(body, <<"0", "x">>)
  /\ Len(body) > 2
  /\ \A i \in 3..Len(body) : body[i] \in HexSet

\* the number a string of decimal digits denotes
DigitsValue(body) == MkInt(FALSE, [i \in 1..Len(body) |-> DigitVal(body[i])])

\* C9 as stated: an input that ends with "wei" gives the integer its
\* remainder denotes, read as a base-10 literal or as a 0x-prefixed base-16
\* literal
C9_DecimalOrHexWei ==
  (cmd = "convert" /\ pc = "done" /\ EndsWith(Strip(args.human), Wei)) =>
    Bind(DropLast(Strip(args.human), 3), LAMBDA body :
      /\ (Len(body) > 0 /\ AllDigits(body))
           => (loc.result = DigitsValue(body) /\ loc.result18 = DigitsValue(body))
      /\ IsHexLiteral(body)
           => loc.result = MkInt(FALSE, HexMag(DropFirst(body, 2))))

\* C9: an input that ends with "wei" gives the integer its remainder denotes
\* as a base-10 literal, whatever the decimals; a remainder that is empty or
\* holds a point, an exponent or a 0x prefix raises ValueError
C9_RawWei ==
  (cmd = "convert" /\ pc = "done" /\ EndsWith(Strip(args.human), Wei)) =>
    Bind(DropLast(Strip(args.human), 3), LAMBDA body :
      /\ (Len(body) > 0 /\ AllDigits(body))
           => (loc.result = DigitsValue(body) /\ loc.result18 = DigitsValue(body))
      /\ (Len(body) > 1 /\ body[1] = "-" /\ AllDigits(Tail(body)))
           => loc.result = MkInt(TRUE, [i \in 1..(Len(body) - 1) |-> DigitVal(body[i + 1])])
      /\ (body = <<>> \/ \E i \in 1..Len(body) : body[i] \in {".", "e", "x"})
           => (loc.result = Exc("ValueError") /\ loc.result18 = Exc("ValueError")))

\* C9 witness: "19wei" converted at 18 decimals is 19
C9_Witness ==
  /\ cmd = "convert"
  /\ pc = "done"
  /\ args.human = <<"1", "9">> \o Wei
  /\ args.decimals = 18
  /\ loc.result = IntOf(19)

\* C10: lp:add-eth submits at most three transactions, approvals and one
\* addLiquidityETH; the addLiquidityETH is the last of them, comes after both
\* balance guards passed and after the approval returned (behind its two
\* approvals when they were needed), and carries the converted ETH amount as
\* its value; a successful invocation has submitted it exactly once
C10_LinearSequence ==
  cmd = "lp:add-eth" =>
    /\ Len(txlog) <= 3
    /\ \A i \in 1..Len(txlog) : IsApprove(txlog[i]) \/ IsAddLiquidity(txlog[i])
    /\ \A i \in 1..Len(txlog) :
         IsAddLiquidity(txlog[i]) =>
           /\ i = Len(txlog)
           /\ pc = "done"
           /\ txlog[i].to = "ROUTER"
           /\ IntLe(loc.token_desired_wei, loc.sup_torc_i)
           /\ IntLe(loc.eth_wei, loc.sup_eth_i)
           /\ loc.ap_current # None
           /\ txlog[i].value = IntStr(to_wei_with_decimals(args.amountETH, 18))
           /\ IF IntLt(loc.ap_current, loc.token_desired_wei)
              THEN SubSeq(txlog, 1, i - 1) =
                     <<ApproveTx("TORC", Zero, TRUE),
                       ApproveTx("TORC", loc.token_desired_wei, TRUE)>>
              ELSE i = 1
    /\ status = "ok" => (Len(txlog) > 0 /\ IsAddLiquidity(txlog[Len(txlog)])
                           /\ txlog[Len(txlog)].ok)

\* C10 witness: a successful invocation of three transactions, the last of
\* which is the addLiquidityETH with half an ETH attached
C10_Witness ==
  /\ cmd = "lp:add-eth"
  /\ status = "ok"
  /\ Len(txlog) = 3
  /\ IsAddLiquidity(txlog[3])
  /\ txlog[3].value = <<"5">> \o Repeat("0", 17)

IsRemoval(t) ==
  t.sig \in {"removeLiquidityETH", "removeLiquidityETHSupportingFeeOnTransferTokens"}

\* the remove handler has read the LP balance, and the specifier asks for
\* more than it
RemoveShortfall ==
  /\ loc.lp_bal # None
  /\ \/ args.liquidity = S_1 /\ IntLt(loc.lp_bal, MkInt(FALSE, <<1>> \o Zeros(18)))
     \/ args.liquidity = S_5wei /\ IntLt(loc.lp_bal, IntOf(5))

\* C11: a remove invocation that finds "all" of a zero LP balance dies with
\* NothingToRemove, one that asks for more than the LP balance dies with the
\* insufficient LP error, and in both cases, as when the pair is the zero
\* address, it submits no transaction; a removal call is only submitted for
\* an amount at most equal to the LP balance, and not zero for "all"
C11_RemoveGuards ==
  cmd \in RemoveCmds =>
    /\ (loc.lp_bal = Zero /\ Strip(args.liquidity) = All) =>
         /\ txlog = <<>>
         /\ pc \in {"rm_want", "done"}
         /\ pc = "done" => (status = "died" /\ err = "NothingToRemove")
    /\ RemoveShortfall =>
         /\ txlog = <<>>
         /\ pc \in {"rm_want", "done"}
         /\ pc = "done" => (status = "died" /\ err = "InsufficientLP")
    /\ pairAddr = "ZERO" => txlog = <<>>
    /\ (pairAddr = "ZERO" /\ loc.fct # "" /\ pc = "done")
         => err \in {"NoPair", "CommandFailed", "OSError"}
    /\ \A i \in 1..Len(txlog) :
         IsRemoval(txlog[i]) =>
           /\ loc.liquidity # None
           /\ txlog[i].args[2] = IntStr(loc.liquidity)
           /\ IntLe(loc.liquidity, loc.lp_bal)
           /\ Strip(args.liquidity) = All
                => (IntLt(Zero, loc.liquidity) /\ loc.liquidity = loc.lp_bal)

\* C11 witness: one whole LP token asked for, 5 units held, and the
\* invocation has died at the guard
C11_Witness ==
  /\ cmd \in RemoveCmds
  /\ RemoveShortfall
  /\ args.liquidity = S_1
  /\ loc.lp_bal = IntOf(5)
  /\ pc = "done"
  /\ err = "InsufficientLP"

\* C12: the liquidity a remove invocation resolves is the whole LP balance
\* for "all", n for "<n>wei", and otherwise the exact value of the decimal
\* specifier times 10^18 truncated toward zero; the approval on the pair token
\* and the removal call carry that same amount
C12_SpecifierResolution ==
  (cmd \in RemoveCmds /\ loc.liquidity # None) =>
    Bind(Strip(args.liquidity), LAMBDA want :
      /\ want = All => loc.liquidity = loc.lp_bal
      /\ (want # All /\ EndsWith(want, Wei) /\ AllDigits(DropLast(want, 3)))
           => loc.liquidity = DigitsValue(DropLast(want, 3))
      /\ (want # All /\ ~EndsWith(want, Wei))
           => loc.liquidity = ExactTrunc(PyDecimal(want), 18)
      /\ \A i \in 1..Len(txlog) :
           /\ (IsApprove(txlog[i]) /\ txlog[i].args[2] # S_0)
                => txlog[i] = ApproveTx(loc.pair, loc.liquidity, txlog[i].ok)
           /\ IsRemoval(txlog[i])
                => (txlog[i].args[1] = "TORC" /\ txlog[i].args[2] = IntStr(loc.liquidity)))

\* the errors of the chain client itself
ClientErrors == {"CommandFailed", "OSError"}

\* how far an invocation got: the locals it has set and the transactions it
\* has submitted
Progress(o) ==
  <<{f \in {"to_addr", "weth", "fct", "pair", "owner"} : o.loc[f] # ""},
    {f \in {"amt_token_min", "amt_eth_min", "deadline", "lp_bal", "liquidity",
            "ap_current"} : o.loc[f] # None},
    Len(o.txlog)>>

\* two invocations in which the chain client behaved alike: it never failed,
\* or it failed in the same way at the same place
SameClientBehaviour(a, b) ==
  \/ a.err \notin ClientErrors /\ b.err \notin ClientErrors
  \/ a.err \in ClientErrors /\ b.err = a.err /\ Progress(a) = Progress(b)

\* a transaction with the signature of a removal call left out
SigBlind(t) == IF IsRemoval(t) THEN [t EXCEPT !.sig = "remove"] ELSE t

\* C17: invoked with the same command line on the same chain state, with the
\* chain client behaving alike, lp:remove-eth and lp:remove-eth-supporting end
\* in the same way, with the same values read and computed and the same
\* transactions submitted, but for the signature of the removal call, which
\* is removeLiquidityETH for the one and
\* removeLiquidityETHSupportingFeeOnTransferTokens for the other
C17_VariantsEquivalent ==
  /\ \A i \in 1..Len(txlog) :
       IsRemoval(txlog[i]) =>
         (txlog[i].sig = "removeLiquidityETH" <=> cmd = "lp:remove-eth")
  /\ (args.first # None /\ pc = "done" /\ SameClientBehaviour(args.first, Outcome)) =>
       /\ cmd # args.first.cmd
       /\ status = args.first.status
       /\ err = args.first.err
       /\ loc = args.first.loc
       /\ Len(txlog) = Len(args.first.txlog)
       /\ \A i \in 1..Len(txlog) :
            /\ SigBlind(txlog[i]) = SigBlind(args.first.txlog[i])
            /\ IsRemoval(txlog[i]) => txlog[i].sig # args.first.txlog[i].sig

\* C17 witness: both entry points went through their two approvals and their
\* removal call
C17_Witness ==
  /\ args.first # None
  /\ args.first.status = "ok"
  /\ status = "ok"
  /\ Len(txlog) = 3
  /\ txlog[3].sig = "removeLiquidityETHSupportingFeeOnTransferTokens"
  /\ args.first.txlog[3].sig = "removeLiquidityETH"

\* a number printed with a minus sign
IsNegative(str) == Len(str) > 0 /\ str[1] = "-"

\* C18: no approval and no liquidity operation is submitted with a negative
\* amount (amount approved, amount desired, minimums, attached value,
\* liquidity removed)
C18_NonNegativeAmounts ==
  \A i \in 1..Len(txlog) :
    /\ IsApprove(txlog[i]) => ~IsNegative(txlog[i].args[2])
    /\ IsAddLiquidity(txlog[i]) =>
         /\ \A k \in 2..4 : ~IsNegative(txlog[i].args[k])
         /\ ~IsNegative(txlog[i].value)
    /\ IsRemoval(txlog[i]) => \A k \in 2..4 : ~IsNegative(txlog[i].args[k])


DeadlineBearing(t) ==
  t.sig \in {"addLiquidityETH", "removeLiquidityETH",
             "removeLiquidityETHSupportingFeeOnTransferTokens", "processFees"}

\* C19: every addLiquidityETH, removeLiquidityETH,
\* removeLiquidityETHSupportingFeeOnTransferTokens and processFees that is
\* submitted carries as its last argument the deadline the user typed when one
\* was typed, and otherwise the time read during the invocation plus 300
\* seconds; and a handler of these commands that ends well has submitted one.
C19_DeadlineExpiry ==
  /\ \A i \in 1..Len(txlog) :
       DeadlineBearing(txlog[i]) =>
         txlog[i].args[Len(txlog[i].args)] =
           (IF args.deadline # <<>> THEN args.deadline
            ELSE IntStr(IntAdd(clock, IntOf(300))))
  /\ (status = "ok" /\ cmd \in RemoveCmds \cup {"lp:add-eth", "fees:process"})
       => DeadlineBearing(txlog[Len(txlog)])

\* processFees went through with the default deadline, 1000 + 300
C19_Witness ==
  /\ cmd = "fees:process"
  /\ args.deadline = <<>>
  /\ status = "ok"
  /\ txlog[1].sig = "processFees"
  /\ txlog[1].args = <<S_50, S_0, "[\"WETH\", \"TORC\"]", <<"1", "3", "0", "0">>>>


\* C20: whatever the decimals() read prints, the number token_decimals returns
\* lies in [0, 255].
C20_DecimalsInRange ==
  (cmd = "token_decimals" /\ status = "ok") =>
    /\ ~loc.result.neg
    /\ IntLe(loc.result, IntOf(255))


NotComma(c) == c # ","

\* C16: for a non-negative decimal d, dec_to_fixed(d) has no exponent and
\* parses back to the value of d, and dec_to_fixed_commas(d) without its
\* separators parses to the same value.
C16_FormatRoundTrip ==
  (cmd = "format" /\ pc = "done" /\ ~args.d.sign) =>
    /\ status = "ok"
    /\ \A i \in 1..Len(loc.fixed) : loc.fixed[i] \in DigitSet \cup {"."}
    /\ DecValue(PyDecimal(loc.fixed)) = DecValue(args.d)
    /\ DecValue(PyDecimal(SelectSeq(loc.commas, NotComma))) = DecValue(args.d)


\* the reserve of TORC and of the other token in the pair
PairTorcReserve ==
  IF LowerStr(pool.token0) = LowerStr(args.torc) THEN pool.r0 ELSE pool.r1

PairOtherReserve ==
  IF LowerStr(pool.token0) = LowerStr(args.torc) THEN pool.r1 ELSE pool.r0

\* (reserveOther * 10^decimalsTORC) / (reserveTORC * 10^decimalsOther)
PriceOfPair ==
  DecDiv(DecOfInt(MkInt(FALSE, PairOtherReserve.mag \o Zeros(SmallInt(loc.dec_torc)))),
         DecOfInt(MkInt(FALSE, PairTorcReserve.mag \o Zeros(SmallInt(loc.dec_other)))))

\* C13: the price the quote returns is (reserveOther / 10^decimalsOther) /
\* (reserveTORC / 10^decimalsTORC), with the pair's reserve0 for the TORC
\* reserve when token0 is TORC in any case of its letters and reserve1
\* otherwise; for 2,000,000 * 10^18 TORC and 10 * 10^18 ETH, 18 decimals each,
\* it is 0.000005.
C13_QuotePrice ==
  (cmd = "lp:quote" /\ loc.price # None) =>
    /\ DecValue(loc.price) = DecValue(PriceOfPair)
    /\ (/\ PairTorcReserve = Scaled(2, 24)
        /\ PairOtherReserve = Scaled(1, 19)
        /\ loc.dec_torc = IntOf(18)
        /\ loc.dec_other = IntOf(18))
         => DecValue(loc.price) = [sign |-> FALSE, digits |-> <<5>>, exp |-> 0 - 6]

QuoteReadErrors == {"CommandFailed", "OSError"}

\* C14: when the factory's reply is empty or the zero address, the quote ends
\* with PairNotFound without reaching the getReserves, token0 or decimals
\* reads and without a price; and lp:remove-eth, lp:remove-eth-supporting and
\* lp:set-pair-on-torc end with no transaction submitted when the pair is the
\* zero address.
C14_PairNotFound ==
  /\ (cmd = "lp:quote" /\ pairAddr \in {"", "ZERO"}) =>
       /\ pc \in {"q_factory", "q_pair", "done"}
       /\ loc.reserve0 = None /\ loc.reserve1 = None /\ loc.t0 = <<>>
       /\ loc.dec_torc = None /\ loc.dec_other = None /\ loc.price = None
       /\ (pc = "done" /\ loc.fct # "" /\ err \notin QuoteReadErrors)
            => (status = "died" /\ err = "PairNotFound")
  /\ (cmd \in RemoveCmds \cup {"lp:set-pair-on-torc"} /\ pairAddr = "ZERO") =>
       /\ txlog = <<>>
       /\ (pc = "done" /\ loc.fct # "" /\ err \notin QuoteReadErrors)
            => (status = "died" /\ err = "NoPair")

\* the factory printed nothing, and the quote ended with PairNotFound
C14_Witness ==
  /\ cmd = "lp:quote"
  /\ pairAddr = ""
  /\ loc.fct = "FACTORY"
  /\ status = "died"
  /\ err = "PairNotFound"

C21_ReservesFromReply ==
  (cmd = "lp:quote" /\ pool.style \in {"annotated", "plain", "two"}) =>
    /\ loc.reserve0 # None => (loc.reserve0 = pool.r0 /\ loc.reserve1 = pool.r1)
    /\ err # "IndexError"


ReadOnlyCmds == {"lp:quote", "lp:get-pair", "lp:router-info", "roles:check"}

\* C23: lp:quote, lp:get-pair, lp:router-info and roles:check never submit a
\* transaction, whether they end well or with an error, and no step of theirs
\* changes a balance or an allowance.
C23_QuoteReadOnly ==
  /\ [](cmd \in ReadOnlyCmds => txlog = <<>>)
  /\ [][(cmd \in ReadOnlyCmds) =>
           (UNCHANGED <<balTorc, balEth, balLp, allowance>>)]_vars

\* a quote that printed its price, with nothing submitted
C23_Witness ==
  /\ cmd = "lp:quote"
  /\ status = "ok"
  /\ loc.shown # <<>>
  /\ txlog = <<>>


\* a string that is not a run of decimal digits
NotDigits(str) == str = <<>> \/ \E i \in 1..Len(str) : str[i] \notin DigitSet

OkApprovals == SelectSeq(txlog, LAMBDA t : t.ok)

\* C25: in the first call of approve_exact_if_needed, with the allowance a it
\* read and the amount r it was asked: when the call returns the allowance is at
\* least r, a itself when a >= r and exactly r when a < r; while no approval
\* has gone through it is still a; when approve(0) went through and approve(r)
\* did not, the call has ended the program with the allowance at 0; and no step
\* ever sets the allowance to anything but 0 or r.
C25_AllowanceOutcome ==
  /\ [](loc.ea_i = 1 =>
         /\ pc = "ea_return" =>
              /\ IntLe(args.amounts[1], allowance["TORC"])
              /\ IntLe(args.amounts[1], loc.ap_current) => allowance["TORC"] = loc.ap_current
              /\ IntLt(loc.ap_current, args.amounts[1]) => allowance["TORC"] = args.amounts[1]
         /\ (loc.ap_current # None /\ Len(OkApprovals) = 0)
              => allowance["TORC"] = loc.ap_current
         /\ (Len(OkApprovals) = 1 /\ pc = "done")
              => (status \in {"died", "raised"} /\ allowance["TORC"] = Zero))
  /\ [][(allowance' # allowance) =>
           (allowance'["TORC"] \in {Zero, args.amounts[loc.ea_i]})]_vars

\* the allowance was 7, approve(0) went through, approve(50 * 10^18) failed,
\* and the allowance is left at 0
C25_Witness ==
  /\ loc.ea_i = 1
  /\ pc = "done"
  /\ status = "died"
  /\ loc.ap_current = IntOf(7)
  /\ args.amounts[1] = Scaled(50, 18)
  /\ Len(txlog) = 2
  /\ txlog[1].ok /\ ~txlog[2].ok
  /\ allowance["TORC"] = Zero


\* the last command in the log is the addLiquidityETH of the running invocation
SubmittedAdd ==
  /\ txlog # <<>>
  /\ txlog[Len(txlog)].sig = "addLiquidityETH"
  /\ txlog[Len(txlog)].args = AddLiquidityArgs

\* C22: with two lp:add-eth invocations of one wallet running at once, an
\* invocation that is at its addLiquidityETH statement has passed its balance
\* guard on the balances it read; from there its next step submits the
\* transaction (or fails to start cast) whatever the allowance and the balance
\* on the chain are by then; and what it read in its preflight is never read
\* again.
C22_NoRecheckAfterPreflight ==
  /\ [](pc = "add_send" =>
          add_guard(loc.sup_torc_i, loc.token_desired_wei, loc.sup_eth_i, loc.eth_wei) = "pass")
  /\ [][(pc = "add_send" /\ peer' = peer) => (SubmittedAdd' \/ err' = "OSError")]_vars
  /\ [][(peer' = peer /\ loc.sup_torc_i # None) =>
          (loc'.sup_torc_i = loc.sup_torc_i)]_vars
  /\ [][(peer' = peer /\ loc.ap_current # None) =>
          (loc'.ap_current = loc.ap_current)]_vars

\* both invocations passed their guards; the running one approved its amount,
\* then the approve(ROUTER, 0) of the other landed, then the running one
\* submitted its addLiquidityETH with the allowance on the chain below the
\* amount, and the transaction failed
C22_Witness ==
  /\ peer # None
  /\ peer.pc = "ap_sendN"
  /\ Len(txlog) = 4
  /\ txlog[2] = Tx("TORC", "approve", ApproveArgs(loc.token_desired_wei), NoValue, TRUE)
  /\ txlog[3] = Tx("TORC", "approve", ApproveArgs(Zero), NoValue, TRUE)
  /\ SubmittedAdd
  /\ ~txlog[4].ok
  /\ IntLt(allowance["TORC"], loc.token_desired_wei)
  /\ IntLe(loc.token_desired_wei, balTorc)
  /\ status = "died"

============================================================================
